---- MODULE Spec2Model ----
(***************************************************************************)
(* A model of jellog: the Logger (router) with its handler registry, the   *)
(* stderr and file sinks with their locks, and Logger.Copy.                *)
(*                                                                         *)
(* Goroutines are modelled with an explicit call stack of frames; every    *)
(* action is one step of the method on top of a goroutine's stack, cut at  *)
(* the points where the code acquires a lock or performs a write.          *)
(***************************************************************************)
EXTENDS Integers, Sequences, FiniteSets, Bags, TLC

VARIABLES
    loggers,    \* heap of Logger values: <<[opts, h, mtx, regs]>>
    omaps,      \* heap of Options.Handlers maps (Go maps are references)
    userOpts,   \* the Options value the calling program is building
    mtxStderr,  \* holder of the package-level stderr mutex
    fhMtx,      \* holder of each FileHandler's own mutex
    stack,      \* per goroutine: call stack of frames, innermost last
    ret,        \* per goroutine: value returned by the last finished call
    trace,      \* per goroutine: handler calls made by the current operation
    exited,     \* the exit codes the process has passed to os.Exit
    fsys        \* the files the model tracks and the descriptors open on them

vars ==
    <<loggers, omaps, userOpts, mtxStderr, fhMtx, stack, ret, trace, exited,
      fsys>>

----------------------------------------------------------------------------
(* Bounds of the model.                                                    *)

MaxGoroutines == 2      \* goroutines running concurrently
MaxRegs == 2            \* AddHandler calls made on one Logger by the program
MaxOptHandlers == 2     \* WithHandler calls made on one Options value
MaxLoggers == 3         \* Logger values alive (the original and its copies)

G == 1..MaxGoroutines
\* longest message formatted
MaxMsgLen == 3
\* size of the log file at which the program stops logging
MaxFileLen == 3

----------------------------------------------------------------------------
(* Levels (struct version: Level{Name, Severity}).                         *)

MaxInt == 2147483647
minPossibleSeverity == (0 - MaxInt) - 1

Level(name, sev) == [Name |-> name, Severity |-> sev]

LvTrace == Level("TRACE", -200)
LvDebug == Level("DEBUG", -100)
LvInfo == Level("INFO", 0)
LvWarn == Level("WARN", 100)
LvError == Level("ERROR", 200)
LvFatal == Level("FATAL", 300)
LvAll == Level("ALL", MaxInt)

CustomLevels ==
    { Level("NOTICE", 50), Level("VERBOSE", -300), Level("INFO2", 0),
      Level("EVERYTHING", MaxInt), Level("LOWEST", minPossibleSeverity) }

BuiltInLevels == {LvTrace, LvDebug, LvInfo, LvWarn, LvError, LvFatal, LvAll}

----------------------------------------------------------------------------
(* Handlers.  A Handler value held by a Logger is a pointer; the model     *)
(* names each instance, and two Handler values are equal exactly when they *)
(* name the same instance.                                                 *)

StderrHandlers == {"se1", "se2"}
FileHandlers == {"fh1", "fh2", "fh0"}

\* fh.f != nil: fh0 is the zero value, never opened
FileOpened(hd) == hd # "fh0"

\* the filename each FileHandler was opened on: fh1 and fh2 share one path
FilePath(hd) == IF FileOpened(hd) THEN "app.log" ELSE ""
Handlers == StderrHandlers \cup FileHandlers

NilFormatter == "nil"
NilConverter == "nil"

\* HandlerOptions each handler instance was constructed with.
HandlerOpts(hd) ==
    CASE hd = "se1" -> [Component |-> "", Formatter |-> NilFormatter]
      [] hd = "se2" -> [Component |-> "err", Formatter |-> "fmtA"]
      [] hd = "fh1" -> [Component |-> "", Formatter |-> NilFormatter]
      [] hd = "fh2" -> [Component |-> "file", Formatter |-> NilFormatter]
      [] hd = "fh0" -> [Component |-> "", Formatter |-> NilFormatter]

----------------------------------------------------------------------------
(* Go values.                                                              *)

\* make(map[K][]V): a map is a function whose DOMAIN is its key set.
EmptyMap == [k \in {} |-> <<>>]

\* A nil reference is {}, a reference to heap cell i is {i}.
NilRef == {}
Ref(i) == {i}
Deref(r) == CHOOSE i \in r : TRUE

\* error values: nil, or a message made of the pieces fmt.Errorf joined.
NilErr == [isNil |-> TRUE, msg |-> <<>>]
Err(msg) == [isNil |-> FALSE, msg |-> msg]

\* The orders in which a range loop may visit the keys of a map.
RECURSIVE Orders(_)
Orders(S) ==
    IF S = {} THEN {<<>>}
    ELSE UNION {{<<x>> \o s : s \in Orders(S \ {x})} : x \in S}

\* the zero Options value, Defaults()
Defaults ==
    [Component |-> "", Formatter |-> NilFormatter, Converter |-> NilConverter,
     Handlers |-> NilRef]

\* opts.Handlers as a map; ranging over or indexing a nil map sees no keys
HandlersMap(maps, opts) ==
    IF opts.Handlers = NilRef THEN EmptyMap ELSE maps[Deref(opts.Handlers)]

----------------------------------------------------------------------------
(* The registry lg.h : map[int][]Handler.                                  *)

\* mutant: the ALL sentinel filed under its own severity
BucketOf_Severity(lv) == lv.Severity

\* the bucket AddHandler files a Level under
BucketOf(lv) ==
    IF lv.Severity = LvAll.Severity THEN minPossibleSeverity ELSE lv.Severity

\* mutant: the handler is put at the front of its bucket
AddHandlerTo_Prepend(h, lv, out) ==
    LET sev == BucketOf(lv)
        currentList == IF sev \in DOMAIN h THEN h[sev] ELSE <<>>
    IN  [b \in DOMAIN h \cup {sev} |->
            IF b = sev THEN <<out>> \o currentList ELSE h[b]]

\* the registry after the body of AddHandler(lv, out)
AddHandlerTo(h, lv, out) ==
    LET sev == BucketOf(lv)
        currentList == IF sev \in DOMAIN h THEN h[sev] ELSE <<>>
    IN  [b \in DOMAIN h \cup {sev} |->
            IF b = sev THEN Append(currentList, out) ELSE h[b]]

\* the inner loop of New: logger.AddHandler(lv, h) for each h of the slice
RECURSIVE AddSlice(_, _, _)
AddSlice(h, lv, hSlice) ==
    IF hSlice = <<>> THEN h
    ELSE AddSlice(AddHandlerTo(h, lv, Head(hSlice)), lv, Tail(hSlice))

\* the outer loop of New, visiting the keys of opts.Handlers in keyOrder
RECURSIVE AddMap(_, _, _)
AddMap(h, hmap, keyOrder) ==
    IF keyOrder = <<>> THEN h
    ELSE AddMap(AddSlice(h, Head(keyOrder), hmap[Head(keyOrder)]), hmap,
                Tail(keyOrder))

\* mutant: a bucket matches only strictly lower thresholds
Matches_Strict(minLevel, lv) == minLevel < lv.Severity

\* the test HandlersForLevel applies to each bucket
Matches(minLevel, lv) == minLevel <= lv.Severity

\* the loop of HandlersForLevel, visiting the buckets in bucketOrder
RECURSIVE MatchingHandlers(_, _, _)
MatchingHandlers(h, lv, bucketOrder) ==
    IF bucketOrder = <<>> THEN <<>>
    ELSE LET minLevel == Head(bucketOrder)
             rest == MatchingHandlers(h, lv, Tail(bucketOrder))
         IN  IF Matches(minLevel, lv) THEN h[minLevel] \o rest ELSE rest

----------------------------------------------------------------------------
(* New and the pieces of Copy.                                             *)

\* the converter New installs when none is supplied (E is string)
DefaultConverter == "Sprintf"

\* history: the bag of AddHandler calls (level, handler) made on a Logger
Reg(lv, hd) == SetToBag({[lv |-> lv, hd |-> hd]})

RECURSIVE RegsOfSlice(_, _)
RegsOfSlice(lv, hSlice) ==
    IF hSlice = <<>> THEN EmptyBag
    ELSE Reg(lv, Head(hSlice)) (+) RegsOfSlice(lv, Tail(hSlice))

\* history: the AddHandler calls New makes
RECURSIVE RegsOfMap(_, _)
RegsOfMap(hmap, keyOrder) ==
    IF keyOrder = <<>> THEN EmptyBag
    ELSE RegsOfSlice(Head(keyOrder), hmap[Head(keyOrder)])
         (+) RegsOfMap(hmap, Tail(keyOrder))

\* the Logger value New(opts) returns, its loop visiting opts.Handlers in
\* keyOrder; regs is the history of the AddHandler calls made on it
NewLogger(maps, opts, keyOrder) ==
    [opts |-> IF opts.Converter = NilConverter
              THEN [opts EXCEPT !.Converter = DefaultConverter]
              ELSE opts,
     mtx |-> {},
     h |-> AddMap(EmptyMap, HandlersMap(maps, opts), keyOrder),
     regs |-> RegsOfMap(HandlersMap(maps, opts), keyOrder)]

\* mutant: the fields of the options taken as they are, without fallback
MergedFields_NoFallback(lgOpts, opts) ==
    [Component |-> opts.Component, Formatter |-> opts.Formatter,
     Converter |-> opts.Converter, Handlers |-> NilRef]

\* Copy: the Component, Formatter and Converter of the merged options
MergedFields(lgOpts, opts) ==
    [Component |-> IF opts.Component = "" THEN lgOpts.Component
                   ELSE opts.Component,
     Formatter |-> IF opts.Formatter = NilFormatter THEN lgOpts.Formatter
                   ELSE opts.Formatter,
     Converter |-> IF opts.Converter = NilConverter THEN lgOpts.Converter
                   ELSE opts.Converter,
     Handlers |-> NilRef]

\* Copy: the handLv entries of lg.h, buckets visited in bucketOrder
RECURSIVE CurrentEntries(_, _)
CurrentEntries(h, bucketOrder) ==
    IF bucketOrder = <<>> THEN <<>>
    ELSE LET lv == Head(bucketOrder)
         IN  [k \in 1..Len(h[lv]) |-> [h |-> h[lv][k], lv |-> lv]]
             \o CurrentEntries(h, Tail(bucketOrder))

\* Copy: all handlers of opts.Handlers, keys visited in keyOrder
RECURSIVE OptAdded(_, _)
OptAdded(hmap, keyOrder) ==
    IF keyOrder = <<>> THEN <<>>
    ELSE hmap[Head(keyOrder)] \o OptAdded(hmap, Tail(keyOrder))

\* mutant: the test of the merge loop inverted
AddedByOpt_Inverted(entryH, optAdded) ==
    ~\E k \in 1..Len(optAdded) : entryH = optAdded[k]

\* Copy: is the entry in the list of handlers being added?
AddedByOpt(entryH, optAdded) ==
    \E k \in 1..Len(optAdded) : entryH = optAdded[k]

\* mutant: the all-inclusive bucket re-registered under the lowest named level
LevelForBucket_AllAsTrace(lv) ==
    IF lv = minPossibleSeverity THEN LvTrace ELSE Level("", lv)

\* Copy: the Level a current entry is re-registered under
LevelForBucket(lv) ==
    IF lv = minPossibleSeverity THEN LvAll
    ELSE IF lv = LvFatal.Severity THEN LvFatal
    ELSE IF lv = LvError.Severity THEN LvError
    ELSE IF lv = LvWarn.Severity THEN LvWarn
    ELSE IF lv = LvInfo.Severity THEN LvInfo
    ELSE IF lv = LvDebug.Severity THEN LvDebug
    ELSE IF lv = LvTrace.Severity THEN LvTrace
    ELSE Level("", lv)

\* m[k] = append(m[k], hSlice...)
MapAppend(m, k, hSlice) ==
    [x \in DOMAIN m \cup {k} |->
        IF x = k THEN (IF k \in DOMAIN m THEN m[k] ELSE <<>>) \o hSlice
        ELSE m[x]]

\* Copy: add all current entries that are not modified by the options
RECURSIVE MergeCurrent(_, _, _)
MergeCurrent(mergedHandlers, current, optAdded) ==
    IF current = <<>> THEN mergedHandlers
    ELSE LET entry == Head(current)
         IN  MergeCurrent(
                IF AddedByOpt(entry.h, optAdded) THEN mergedHandlers
                ELSE MapAppend(mergedHandlers, LevelForBucket(entry.lv),
                               <<entry.h>>),
                Tail(current), optAdded)

\* mutant: the entries of opts.Handlers replace the list already merged
RECURSIVE MergeNew_Overwrite(_, _, _)
MergeNew_Overwrite(mergedHandlers, hmap, keyOrder) ==
    IF keyOrder = <<>> THEN mergedHandlers
    ELSE MergeNew_Overwrite(
            [x \in DOMAIN mergedHandlers \cup {Head(keyOrder)} |->
                IF x = Head(keyOrder) THEN hmap[x] ELSE mergedHandlers[x]],
            hmap, Tail(keyOrder))

\* Copy: add the entries of opts.Handlers, keys visited in keyOrder
RECURSIVE MergeNew(_, _, _)
MergeNew(mergedHandlers, hmap, keyOrder) ==
    IF keyOrder = <<>> THEN mergedHandlers
    ELSE MergeNew(MapAppend(mergedHandlers, Head(keyOrder),
                            hmap[Head(keyOrder)]),
                  hmap, Tail(keyOrder))

----------------------------------------------------------------------------
(* Call stacks.                                                            *)

Event(comp, lv, msg) == [Component |-> comp, Level |-> lv, Message |-> msg]

\* a frame with every local at its zero value
Frame(fn, pc) ==
    [fn |-> fn, pc |-> pc, lg |-> 0, hd |-> "", lv |-> Level("", 0),
     evt |-> Event("", Level("", 0), ""), dispatch |-> <<>>, i |-> 0,
     fullErr |-> NilErr, opts |-> Defaults, lgOpts |-> Defaults,
     snap |-> EmptyMap, mergedHandlers |-> EmptyMap,
     lf |-> [UTC |-> FALSE, ShowMircoseconds |-> FALSE]]

NoRet == [fn |-> "", val |-> <<>>, info |-> <<>>]
Ret(fn, val, info) == [fn |-> fn, val |-> val, info |-> info]

Idle(g) == stack[g] = <<>>
Depth(g) == Len(stack[g])
Top(g) == stack[g][Len(stack[g])]
At(g, fn, pc) == ~Idle(g) /\ Top(g).fn = fn /\ Top(g).pc = pc

Push(g, f) == [stack EXCEPT ![g] = Append(@, f)]
Pop(g) == [stack EXCEPT ![g] = SubSeq(@, 1, Len(@) - 1)]
SetTop(g, f) == [stack EXCEPT ![g][Len(stack[g])] = f]
\* replace the top frame by f and call callee
SetTopPush(g, f, callee) ==
    [stack EXCEPT ![g] = Append([@ EXCEPT ![Len(@)] = f], callee)]

\* mutant: the configured component is put in front of the event's
ChainComponent_Prepend(evtComponent, component) ==
    IF component # ""
    THEN component \o (IF evtComponent # "" THEN "." \o evtComponent ELSE "")
    ELSE evtComponent

\* chain a configured component onto an event's component
ChainComponent(evtComponent, component) ==
    IF component # ""
    THEN (IF evtComponent # "" THEN evtComponent \o "." ELSE "") \o component
    ELSE evtComponent

\* number of registrations in a registry
RECURSIVE SumLen(_, _)
SumLen(h, keys) ==
    IF keys = {} THEN 0
    ELSE LET k == CHOOSE x \in keys : TRUE
         IN  Len(h[k]) + SumLen(h, keys \ {k})
RegCount(h) == SumLen(h, DOMAIN h)

UnchangedSinks == UNCHANGED <<mtxStderr, fhMtx, exited, fsys>>
UnchangedHeap == UNCHANGED <<loggers, omaps, userOpts, exited>>

----------------------------------------------------------------------------
(* Logger.AddHandler                                                       *)

\* the program calls lg.AddHandler(lv, out)
CallAddHandler(g, l, lv, out) ==
    /\ Idle(g)
    /\ l \in 1..Len(loggers)
    /\ RegCount(loggers[l].h) < MaxRegs
    /\ stack' = Push(g, [Frame("AddHandler", "lock") EXCEPT
                            !.lg = l, !.lv = lv, !.hd = out])
    /\ ret' = [ret EXCEPT ![g] = NoRet]
    /\ trace' = [trace EXCEPT ![g] = <<>>]
    /\ UnchangedHeap /\ UnchangedSinks

\* mutant: AddHandler enters its body without waiting for the lock
AddHandlerLock_NoWait(g) ==
    /\ At(g, "AddHandler", "lock")
    /\ loggers' = [loggers EXCEPT ![Top(g).lg].mtx = @ \cup {g}]
    /\ stack' = SetTop(g, [Top(g) EXCEPT !.pc = "read"])
    /\ UNCHANGED <<omaps, userOpts, ret, trace>> /\ UnchangedSinks

\* (*lg.mtx).Lock()
AddHandlerLock(g) ==
    /\ At(g, "AddHandler", "lock")
    /\ loggers[Top(g).lg].mtx = {}
    /\ loggers' = [loggers EXCEPT ![Top(g).lg].mtx = {g}]
    /\ stack' = SetTop(g, [Top(g) EXCEPT !.pc = "read"])
    /\ UNCHANGED <<omaps, userOpts, ret, trace>> /\ UnchangedSinks

\* currentList, ok := lg.h[sev]; an empty list is made when there is none
AddHandlerRead(g) ==
    /\ At(g, "AddHandler", "read")
    /\ LET f == Top(g)
           h == loggers[f.lg].h
           sev == BucketOf(f.lv)
           currentList == IF sev \in DOMAIN h THEN h[sev] ELSE <<>>
       IN  stack' = SetTop(g, [f EXCEPT !.dispatch = currentList,
                                        !.pc = "body"])
    /\ UNCHANGED <<ret, trace>> /\ UnchangedHeap /\ UnchangedSinks

\* mutant: AddHandler leaves out a handler the bucket already holds
AddHandlerBody_Dedup(g) ==
    /\ At(g, "AddHandler", "body")
    /\ LET f == Top(g)
           sev == BucketOf(f.lv)
           held == \E j \in 1..Len(f.dispatch) : f.dispatch[j] = f.hd
       IN  /\ loggers' = [loggers EXCEPT
                ![f.lg].h = [b \in DOMAIN @ \cup {sev} |->
                                IF b = sev
                                THEN (IF held THEN f.dispatch
                                      ELSE Append(f.dispatch, f.hd))
                                ELSE @[b]],
                ![f.lg].regs = @ (+) Reg(f.lv, f.hd),
                ![f.lg].mtx = {}]
           /\ ret' = [ret EXCEPT ![g] =
                Ret("AddHandler", <<>>, [lg |-> f.lg, lv |-> f.lv, hd |-> f.hd])]
    /\ stack' = Pop(g)
    /\ UNCHANGED <<omaps, userOpts, trace>> /\ UnchangedSinks

\* currentList = append(currentList, out); lg.h[sev] = currentList; and the
\* deferred Unlock
AddHandlerBody(g) ==
    /\ At(g, "AddHandler", "body")
    /\ LET f == Top(g)
           sev == BucketOf(f.lv)
       IN  /\ loggers' = [loggers EXCEPT
                ![f.lg].h = [b \in DOMAIN @ \cup {sev} |->
                                IF b = sev THEN Append(f.dispatch, f.hd)
                                ELSE @[b]],
                ![f.lg].regs = @ (+) Reg(f.lv, f.hd),
                ![f.lg].mtx = {}]
           /\ ret' = [ret EXCEPT ![g] =
                Ret("AddHandler", <<>>, [lg |-> f.lg, lv |-> f.lv, hd |-> f.hd])]
    /\ stack' = Pop(g)
    /\ UNCHANGED <<omaps, userOpts, trace>> /\ UnchangedSinks

----------------------------------------------------------------------------
(* The Logger of logger.go (interface Level).  Its New makes an empty      *)
(* registry and its AddHandler files a handler under lv.Severity();        *)
(* HandlersForLevel, Output and InsertBreak read as above.                 *)

LoggerGo_New(opts) ==
    [opts |-> IF opts.Converter = NilConverter
              THEN [opts EXCEPT !.Converter = DefaultConverter]
              ELSE opts,
     mtx |-> {},
     h |-> EmptyMap,
     regs |-> EmptyBag]

\* the registry after the body of AddHandler(lv, out)
LoggerGo_AddHandlerTo(h, lv, out) ==
    LET sev == lv.Severity
        currentList == IF sev \in DOMAIN h THEN h[sev] ELSE <<>>
    IN  [b \in DOMAIN h \cup {sev} |->
            IF b = sev THEN Append(currentList, out) ELSE h[b]]

\* the program calls lg.AddHandler(lv, out)
LoggerGo_CallAddHandler(g, l, lv, out) ==
    /\ Idle(g)
    /\ l \in 1..Len(loggers)
    /\ RegCount(loggers[l].h) < MaxRegs
    /\ stack' = Push(g, [Frame("LoggerGo.AddHandler", "lock") EXCEPT
                            !.lg = l, !.lv = lv, !.hd = out])
    /\ ret' = [ret EXCEPT ![g] = NoRet]
    /\ trace' = [trace EXCEPT ![g] = <<>>]
    /\ UnchangedHeap /\ UnchangedSinks

\* (*lg.mtx).Lock()
LoggerGo_AddHandlerLock(g) ==
    /\ At(g, "LoggerGo.AddHandler", "lock")
    /\ loggers[Top(g).lg].mtx = {}
    /\ loggers' = [loggers EXCEPT ![Top(g).lg].mtx = {g}]
    /\ stack' = SetTop(g, [Top(g) EXCEPT !.pc = "body"])
    /\ UNCHANGED <<omaps, userOpts, ret, trace>> /\ UnchangedSinks

\* the body of AddHandler and the deferred Unlock
LoggerGo_AddHandlerBody(g) ==
    /\ At(g, "LoggerGo.AddHandler", "body")
    /\ LET f == Top(g)
       IN  /\ loggers' = [loggers EXCEPT
                ![f.lg].h = LoggerGo_AddHandlerTo(@, f.lv, f.hd),
                ![f.lg].regs = @ (+) Reg(f.lv, f.hd),
                ![f.lg].mtx = {}]
           /\ ret' = [ret EXCEPT ![g] =
                Ret("LoggerGo.AddHandler", <<>>,
                    [lg |-> f.lg, lv |-> f.lv, hd |-> f.hd])]
    /\ stack' = Pop(g)
    /\ UNCHANGED <<omaps, userOpts, trace>> /\ UnchangedSinks

LoggerGo_RegistryStep(g) ==
    \/ LoggerGo_AddHandlerLock(g)
    \/ LoggerGo_AddHandlerBody(g)

----------------------------------------------------------------------------
(* Logger.HandlersForLevel                                                 *)

\* the program calls lg.HandlersForLevel(lv)
CallHandlersForLevel(g, l, lv) ==
    /\ Idle(g)
    /\ l \in 1..Len(loggers)
    /\ stack' = Push(g, [Frame("HandlersForLevel", "lock") EXCEPT
                            !.lg = l, !.lv = lv])
    /\ ret' = [ret EXCEPT ![g] = NoRet]
    /\ trace' = [trace EXCEPT ![g] = <<>>]
    /\ UnchangedHeap /\ UnchangedSinks

\* mutant: the Loggers share one mutex
HandlersForLevelLock_SharedMutex(g) ==
    /\ At(g, "HandlersForLevel", "lock")
    /\ \A l \in 1..Len(loggers) : loggers[l].mtx = {}
    /\ loggers' = [loggers EXCEPT ![Top(g).lg].mtx = {g}]
    /\ stack' = SetTop(g, [Top(g) EXCEPT !.pc = "body"])
    /\ UNCHANGED <<omaps, userOpts, ret, trace>> /\ UnchangedSinks

\* (*lg.mtx).Lock()
HandlersForLevelLock(g) ==
    /\ At(g, "HandlersForLevel", "lock")
    /\ loggers[Top(g).lg].mtx = {}
    /\ loggers' = [loggers EXCEPT ![Top(g).lg].mtx = {g}]
    /\ stack' = SetTop(g, [Top(g) EXCEPT !.pc = "body"])
    /\ UNCHANGED <<omaps, userOpts, ret, trace>> /\ UnchangedSinks

\* mutant: HandlersForLevel returns without the deferred Unlock
HandlersForLevelBody_NoUnlock(g) ==
    /\ At(g, "HandlersForLevel", "body")
    /\ LET f == Top(g)
           h == loggers[f.lg].h
       IN  \E bucketOrder \in Orders(DOMAIN h) :
                ret' = [ret EXCEPT ![g] =
                    Ret("HandlersForLevel", MatchingHandlers(h, f.lv, bucketOrder),
                        [lg |-> f.lg, lv |-> f.lv, h |-> h])]
    /\ stack' = Pop(g)
    /\ UNCHANGED <<loggers, omaps, userOpts, trace>> /\ UnchangedSinks

\* the loop over lg.h, the return and the deferred Unlock
HandlersForLevelBody(g) ==
    /\ At(g, "HandlersForLevel", "body")
    /\ LET f == Top(g)
           h == loggers[f.lg].h
       IN  /\ \E bucketOrder \in Orders(DOMAIN h) :
                ret' = [ret EXCEPT ![g] =
                    Ret("HandlersForLevel", MatchingHandlers(h, f.lv, bucketOrder),
                        [lg |-> f.lg, lv |-> f.lv, h |-> h])]
           /\ loggers' = [loggers EXCEPT ![f.lg].mtx = {}]
    /\ stack' = Pop(g)
    /\ UNCHANGED <<omaps, userOpts, trace>> /\ UnchangedSinks

----------------------------------------------------------------------------
(* Logger.Output and Logger.InsertBreak                                    *)

\* the frame of the call dispatch[i].Output(calldepth+1, evt) or
\* dispatch[i].InsertBreak(), by the dynamic type of the handler
HandlerFrame(hd, method, evt) ==
    [Frame(IF hd \in StderrHandlers THEN "StderrHandler." \o method
           ELSE "FileHandler." \o method, "start")
        EXCEPT !.hd = hd, !.evt = evt]

\* fullErr after a handler returned err
Collect(fullErr, err) ==
    IF err.isNil THEN fullErr
    ELSE IF ~fullErr.isNil
         THEN Err(fullErr.msg \o <<"\nhander: ">> \o err.msg)
         ELSE Err(<<"handler: ">> \o err.msg)

\* the program calls lg.Output(calldepth, evt)
CallOutput(g, l, evt) ==
    /\ Idle(g)
    /\ l \in 1..Len(loggers)
    /\ stack' = Push(g, [Frame("Logger.Output", "start") EXCEPT
                            !.lg = l, !.evt = evt, !.lv = evt.Level])
    /\ ret' = [ret EXCEPT ![g] = NoRet]
    /\ trace' = [trace EXCEPT ![g] = <<>>]
    /\ UnchangedHeap /\ UnchangedSinks

\* the program calls lg.InsertBreak(lv)
CallInsertBreak(g, l, lv) ==
    /\ Idle(g)
    /\ l \in 1..Len(loggers)
    /\ stack' = Push(g, [Frame("Logger.InsertBreak", "start") EXCEPT
                            !.lg = l, !.lv = lv])
    /\ ret' = [ret EXCEPT ![g] = NoRet]
    /\ trace' = [trace EXCEPT ![g] = <<>>]
    /\ UnchangedHeap /\ UnchangedSinks

\* the program calls a handler's Output or InsertBreak itself
CallHandler(g, hd, method, evt) ==
    /\ Idle(g)
    /\ stack' = Push(g, HandlerFrame(hd, method, evt))
    /\ ret' = [ret EXCEPT ![g] = NoRet]
    /\ trace' = [trace EXCEPT ![g] = <<>>]
    /\ UnchangedHeap /\ UnchangedSinks

\* mutant: Output adds the Logger's component twice
LoggerOutputStart_ChainsTwice(g) ==
    /\ At(g, "Logger.Output", "start")
    /\ LET f == Top(g)
           c == loggers[f.lg].opts.Component
           evt == [f.evt EXCEPT !.Component =
                      ChainComponent(ChainComponent(@, c), c)]
       IN  stack' = SetTopPush(g, [f EXCEPT !.evt = evt, !.pc = "dispatch"],
                        [Frame("HandlersForLevel", "lock") EXCEPT
                            !.lg = f.lg, !.lv = evt.Level])
    /\ UNCHANGED <<ret, trace>> /\ UnchangedHeap /\ UnchangedSinks

\* Output: chain the Logger's component, then call HandlersForLevel
LoggerOutputStart(g) ==
    /\ At(g, "Logger.Output", "start")
    /\ LET f == Top(g)
           evt == [f.evt EXCEPT !.Component =
                      ChainComponent(@, loggers[f.lg].opts.Component)]
       IN  stack' = SetTopPush(g, [f EXCEPT !.evt = evt, !.pc = "dispatch"],
                        [Frame("HandlersForLevel", "lock") EXCEPT
                            !.lg = f.lg, !.lv = evt.Level])
    /\ UNCHANGED <<ret, trace>> /\ UnchangedHeap /\ UnchangedSinks

\* InsertBreak: call HandlersForLevel
LoggerInsertBreakStart(g) ==
    /\ At(g, "Logger.InsertBreak", "start")
    /\ LET f == Top(g)
       IN  stack' = SetTopPush(g, [f EXCEPT !.pc = "dispatch"],
                        [Frame("HandlersForLevel", "lock") EXCEPT
                            !.lg = f.lg, !.lv = f.lv])
    /\ UNCHANGED <<ret, trace>> /\ UnchangedHeap /\ UnchangedSinks

\* dispatch := lg.HandlersForLevel(...); var fullErr error
LoggerDispatch(g) ==
    /\ ~Idle(g)
    /\ Top(g).fn \in {"Logger.Output", "Logger.InsertBreak"}
    /\ Top(g).pc = "dispatch"
    /\ stack' = SetTop(g, [Top(g) EXCEPT !.dispatch = ret[g].val, !.i = 1,
                              !.fullErr = NilErr, !.snap = ret[g].info.h,
                              !.pc = "loop"])
    /\ UNCHANGED <<ret, trace>> /\ UnchangedHeap /\ UnchangedSinks

\* mutant: InsertBreak calls the handlers' Output
LoggerLoopCall_AlwaysOutput(g) ==
    /\ ~Idle(g)
    /\ Top(g).fn \in {"Logger.Output", "Logger.InsertBreak"}
    /\ Top(g).pc = "loop"
    /\ LET f == Top(g)
       IN  /\ f.i <= Len(f.dispatch)
           /\ stack' = SetTopPush(g, [f EXCEPT !.pc = "collect"],
                HandlerFrame(f.dispatch[f.i], "Output", f.evt))
    /\ UNCHANGED <<ret, trace>> /\ UnchangedHeap /\ UnchangedSinks

\* for i := range dispatch: call the handler
LoggerLoopCall(g) ==
    /\ ~Idle(g)
    /\ Top(g).fn \in {"Logger.Output", "Logger.InsertBreak"}
    /\ Top(g).pc = "loop"
    /\ LET f == Top(g)
       IN  /\ f.i <= Len(f.dispatch)
           /\ stack' = SetTopPush(g, [f EXCEPT !.pc = "collect"],
                HandlerFrame(f.dispatch[f.i],
                    IF f.fn = "Logger.Output" THEN "Output" ELSE "InsertBreak",
                    f.evt))
    /\ UNCHANGED <<ret, trace>> /\ UnchangedHeap /\ UnchangedSinks

\* mutant: the loop stops at the first handler that returns an error
LoggerLoopCollect_ShortCircuit(g) ==
    /\ ~Idle(g)
    /\ Top(g).fn \in {"Logger.Output", "Logger.InsertBreak"}
    /\ Top(g).pc = "collect"
    /\ stack' = SetTop(g, [Top(g) EXCEPT
                    !.fullErr = Collect(@, ret[g].val),
                    !.i = IF ret[g].val.isNil THEN @ + 1
                          ELSE Len(Top(g).dispatch) + 1,
                    !.pc = "loop"])
    /\ UNCHANGED <<ret, trace>> /\ UnchangedHeap /\ UnchangedSinks

\* mutant: the handlers work on the Logger's event instead of a copy of it
LoggerLoopCollect_SharedEvent(g) ==
    /\ ~Idle(g)
    /\ Top(g).fn \in {"Logger.Output", "Logger.InsertBreak"}
    /\ Top(g).pc = "collect"
    /\ stack' = SetTop(g, [Top(g) EXCEPT
                    !.fullErr = Collect(@, ret[g].val),
                    !.evt = IF Top(g).fn = "Logger.Output" /\ trace[g] # <<>>
                            THEN trace[g][Len(trace[g])].evt ELSE @,
                    !.i = @ + 1, !.pc = "loop"])
    /\ UNCHANGED <<ret, trace>> /\ UnchangedHeap /\ UnchangedSinks

\* err := <the handler's result>; if err != nil { fullErr = ... }
LoggerLoopCollect(g) ==
    /\ ~Idle(g)
    /\ Top(g).fn \in {"Logger.Output", "Logger.InsertBreak"}
    /\ Top(g).pc = "collect"
    /\ stack' = SetTop(g, [Top(g) EXCEPT
                    !.fullErr = Collect(@, ret[g].val),
                    !.i = @ + 1, !.pc = "loop"])
    /\ UNCHANGED <<ret, trace>> /\ UnchangedHeap /\ UnchangedSinks

\* return fullErr
LoggerReturn(g) ==
    /\ ~Idle(g)
    /\ Top(g).fn \in {"Logger.Output", "Logger.InsertBreak"}
    /\ Top(g).pc = "loop"
    /\ LET f == Top(g)
       IN  /\ f.i > Len(f.dispatch)
           /\ ret' = [ret EXCEPT ![g] =
                Ret(f.fn, f.fullErr,
                    [lg |-> f.lg, lv |-> f.lv, evt |-> f.evt,
                     dispatch |-> f.dispatch, h |-> f.snap])]
    /\ stack' = Pop(g)
    /\ UNCHANGED trace /\ UnchangedHeap /\ UnchangedSinks

----------------------------------------------------------------------------
(* Logger.Log, Logf, the level methods and Fatal, Fatalf                   *)

\* the methods that create an event and pass it to Output
LogMethods ==
    {"Log", "Logf", "Trace", "Tracef", "Debug", "Debugf", "Info", "Infof",
     "Warn", "Warnf", "Error", "Errorf"}
FatalMethods == {"Fatal", "Fatalf"}

\* the level a method logs at: Log and Logf take it as an argument
MethodLevel(method, lv) ==
    CASE method \in {"Log", "Logf"} -> lv
      [] method \in {"Trace", "Tracef"} -> LvTrace
      [] method \in {"Debug", "Debugf"} -> LvDebug
      [] method \in {"Info", "Infof"} -> LvInfo
      [] method \in {"Warn", "Warnf"} -> LvWarn
      [] method \in {"Error", "Errorf"} -> LvError
      [] method \in FatalMethods -> LvFatal

\* a message of type E is used directly, any other goes through the
\* Logger's Converter
Convert(converter, msg) == [converter |-> converter, arg |-> msg.v]
CreateEvent(opts, lv, msg) ==
    Event("", lv, IF msg.isEType THEN msg.v ELSE Convert(opts.Converter, msg))

\* the program calls lg.Log(lv, msg), lg.Logf(lv, ...), lg.Info(msg), ...,
\* or lg.Fatal(msg), lg.Fatalf(...)
CallLog(g, l, method, lv, msg) ==
    /\ Idle(g)
    /\ l \in 1..Len(loggers)
    /\ stack' = Push(g, [Frame("Logger." \o method, "start") EXCEPT
                            !.lg = l, !.lv = MethodLevel(method, lv),
                            !.lgOpts = loggers[l].opts,
                            !.evt.Message = msg])
    /\ ret' = [ret EXCEPT ![g] = NoRet]
    /\ trace' = [trace EXCEPT ![g] = <<>>]
    /\ UnchangedHeap /\ UnchangedSinks

InLogMethod(g, methods) ==
    ~Idle(g) /\ \E m \in methods : Top(g).fn = "Logger." \o m

\* evt := lg.CreateEvent(lv, msg); lg.Output(2, evt)
LogOutput(g) ==
    /\ InLogMethod(g, LogMethods \cup FatalMethods)
    /\ Top(g).pc = "start"
    /\ LET f == Top(g)
           evt == CreateEvent(f.lgOpts, f.lv, f.evt.Message)
       IN  stack' = SetTopPush(g, [f EXCEPT !.evt = evt, !.pc = "called"],
                        [Frame("Logger.Output", "start") EXCEPT
                            !.lg = f.lg, !.evt = evt, !.lv = evt.Level])
    /\ UNCHANGED <<ret, trace>> /\ UnchangedHeap /\ UnchangedSinks

\* mutant: the method returns what Output returned
LogReturn_ReturnsError(g) ==
    /\ InLogMethod(g, LogMethods)
    /\ Top(g).pc = "called"
    /\ ret' = [ret EXCEPT ![g] =
            Ret(Top(g).fn, ret[g].val,
                [lg |-> Top(g).lg, evt |-> Top(g).evt, output |-> ret[g]])]
    /\ stack' = Pop(g)
    /\ UNCHANGED trace /\ UnchangedHeap /\ UnchangedSinks

\* Output's result is not assigned; the method returns nothing
LogReturn(g) ==
    /\ InLogMethod(g, LogMethods)
    /\ Top(g).pc = "called"
    /\ ret' = [ret EXCEPT ![g] =
            Ret(Top(g).fn, <<>>,
                [lg |-> Top(g).lg, evt |-> Top(g).evt, output |-> ret[g]])]
    /\ stack' = Pop(g)
    /\ UNCHANGED trace /\ UnchangedHeap /\ UnchangedSinks

\* mutant: the process exits only when Output returned no error
FatalExit_OnlyOnSuccess(g) ==
    /\ InLogMethod(g, FatalMethods)
    /\ Top(g).pc = "called"
    /\ ret[g].val.isNil
    /\ exited' = Append(exited, 1)
    /\ UNCHANGED <<loggers, omaps, userOpts, mtxStderr, fhMtx, stack, ret,
                   trace, fsys>>

\* os.Exit(1)
FatalExit(g) ==
    /\ InLogMethod(g, FatalMethods)
    /\ Top(g).pc = "called"
    /\ exited' = Append(exited, 1)
    /\ UNCHANGED <<loggers, omaps, userOpts, mtxStderr, fhMtx, stack, ret,
                   trace, fsys>>

LogStep(g) ==
    \/ LogOutput(g)
    \/ LogReturn(g)
    \/ FatalExit(g)

----------------------------------------------------------------------------
(* StderrHandler                                                           *)

\* the error os.Stderr.Write or (*os.File).Write returns when it fails
WriteErr(hd) == Err(<<"write " \o hd \o ": input/output error">>)

InStderrHandler(g) ==
    ~Idle(g) /\ Top(g).fn \in {"StderrHandler.Output", "StderrHandler.InsertBreak"}

\* mutant: the write is entered without waiting for the stderr mutex
StderrLock_NoWait(g) ==
    /\ InStderrHandler(g)
    /\ Top(g).pc = "start"
    /\ mtxStderr' = mtxStderr \cup {g}
    /\ stack' = SetTop(g, [Top(g) EXCEPT
            !.evt.Component =
                IF Top(g).fn = "StderrHandler.Output"
                THEN ChainComponent(@, HandlerOpts(Top(g).hd).Component)
                ELSE @,
            !.pc = "write"])
    /\ UNCHANGED <<fhMtx, fsys, ret, trace>> /\ UnchangedHeap

\* Output: chain the component, format; InsertBreak: take the break;
\* then mtxStderr.Lock()
StderrLock(g) ==
    /\ InStderrHandler(g)
    /\ Top(g).pc = "start"
    /\ mtxStderr = {}
    /\ mtxStderr' = {g}
    /\ stack' = SetTop(g, [Top(g) EXCEPT
            !.evt.Component =
                IF Top(g).fn = "StderrHandler.Output"
                THEN ChainComponent(@, HandlerOpts(Top(g).hd).Component)
                ELSE @,
            !.pc = "write"])
    /\ UNCHANGED <<fhMtx, fsys, ret, trace>> /\ UnchangedHeap

\* mutant: a failed write returns without the Unlock
StderrWrite_KeepsLockOnError(g, fails) ==
    /\ InStderrHandler(g)
    /\ Top(g).pc = "write"
    /\ mtxStderr' = IF fails THEN mtxStderr ELSE mtxStderr \ {g}
    /\ LET err == IF fails THEN WriteErr(Top(g).hd) ELSE NilErr
       IN  /\ ret' = [ret EXCEPT ![g] =
                    Ret(Top(g).fn, err, [hd |-> Top(g).hd])]
           /\ trace' = [trace EXCEPT ![g] = Append(@,
                    [hd |-> Top(g).hd, fn |-> Top(g).fn, evt |-> Top(g).evt,
                     err |-> err])]
    /\ stack' = Pop(g)
    /\ UNCHANGED <<fhMtx, fsys>> /\ UnchangedHeap

\* os.Stderr.Write(buf) completes with err, the deferred Unlock runs and
\* the handler returns err
StderrWrite(g, fails) ==
    /\ InStderrHandler(g)
    /\ Top(g).pc = "write"
    /\ mtxStderr' = mtxStderr \ {g}
    /\ LET err == IF fails THEN WriteErr(Top(g).hd) ELSE NilErr
       IN  /\ ret' = [ret EXCEPT ![g] =
                    Ret(Top(g).fn, err, [hd |-> Top(g).hd])]
           /\ trace' = [trace EXCEPT ![g] = Append(@,
                    [hd |-> Top(g).hd, fn |-> Top(g).fn, evt |-> Top(g).evt,
                     err |-> err])]
    /\ stack' = Pop(g)
    /\ UNCHANGED <<fhMtx, fsys>> /\ UnchangedHeap

----------------------------------------------------------------------------
(* FileHandler                                                             *)

ErrNotOpened ==
    Err(<<"Output() called on FileHandler created without OpenFile">>)

\* what (*os.File).Write returns for a nil *os.File
ErrInvalid == Err(<<"invalid argument">>)

InFileHandler(g) ==
    ~Idle(g) /\ Top(g).fn \in {"FileHandler.Output", "FileHandler.InsertBreak"}

\* The file system.  fsys.files maps the paths the model tracks to their
\* content, fsys.fds maps a FileHandler to the descriptor fh.f of a tracked
\* file.  A handler without an entry writes to a file that is not tracked.
NoFiles == [files |-> EmptyMap, fds |-> EmptyMap]

\* mutant: the file is opened for writing from the start, truncated
OpenFlags_Truncating == {"O_CREATE", "O_TRUNC", "O_WRONLY"}

\* os.O_CREATE|os.O_APPEND|os.O_WRONLY
OpenFlags == {"O_CREATE", "O_APPEND", "O_WRONLY"}

\* os.OpenFile(filename, flags, 0664) succeeds and its descriptor becomes hd.f
OpenFileSys(fs, hd, filename, flags) ==
    LET exists == filename \in DOMAIN fs.files
        content == IF exists /\ "O_TRUNC" \notin flags
                   THEN fs.files[filename] ELSE <<>>
    IN  [files |-> [p \in DOMAIN fs.files \cup {filename} |->
                        IF p = filename THEN content ELSE fs.files[p]],
         fds |-> [h \in DOMAIN fs.fds \cup {hd} |->
                        IF h = hd
                        THEN [path |-> filename, flags |-> flags, off |-> 0]
                        ELSE fs.fds[h]]]

\* s extended with zero bytes up to length n
RECURSIVE ZeroFill(_, _)
ZeroFill(s, n) == IF Len(s) >= n THEN s ELSE ZeroFill(Append(s, "0"), n)

\* write(2) of the first n bytes of buf on hd's descriptor: with O_APPEND the
\* offset is first set to the end of the file
WriteFile(fs, hd, buf, n) ==
    IF hd \notin DOMAIN fs.fds THEN fs
    ELSE LET fd == fs.fds[hd]
             content == fs.files[fd.path]
             pos == IF "O_APPEND" \in fd.flags THEN Len(content) ELSE fd.off
             before == SubSeq(ZeroFill(content, pos), 1, pos)
             after == SubSeq(content, pos + n + 1, Len(content))
         IN  [files |-> [fs.files EXCEPT
                            ![fd.path] = before \o SubSeq(buf, 1, n) \o after],
              fds |-> [fs.fds EXCEPT ![hd].off = pos + n]]

\* the bytes a handler writes: a formatted line ending in a newline for
\* Output, the formatter's break for InsertBreak
FileBuf(fn, hd) ==
    IF fn = "FileHandler.Output" THEN <<"line " \o hd, "\n">> ELSE <<"\n">>

\* the program calls OpenFile(filename, opts) and keeps the handler as hd; a
\* failed os.OpenFile yields a handler without file
OpenFile(g, hd, filename, ok) ==
    /\ Idle(g)
    /\ hd \notin DOMAIN fsys.fds
    /\ FilePath(hd) = filename
    /\ fsys' = IF ok THEN OpenFileSys(fsys, hd, filename, OpenFlags) ELSE fsys
    /\ ret' = [ret EXCEPT ![g] =
            Ret("OpenFile",
                IF ok THEN NilErr ELSE Err(<<"cannot open file: ", filename>>),
                [hd |-> hd])]
    /\ trace' = [trace EXCEPT ![g] = <<>>]
    /\ UNCHANGED <<stack, mtxStderr, fhMtx>> /\ UnchangedHeap

\* Output: if fh.f == nil, return the error
FileOutputNotOpened(g) ==
    /\ At(g, "FileHandler.Output", "start")
    /\ ~FileOpened(Top(g).hd)
    /\ ret' = [ret EXCEPT ![g] =
            Ret(Top(g).fn, ErrNotOpened, [hd |-> Top(g).hd])]
    /\ trace' = [trace EXCEPT ![g] = Append(@,
            [hd |-> Top(g).hd, fn |-> Top(g).fn, evt |-> Top(g).evt,
             err |-> ErrNotOpened])]
    /\ stack' = Pop(g)
    /\ UnchangedHeap /\ UnchangedSinks

\* mutant: the write is entered without waiting for the handler's mutex
FileLock_NoWait(g) ==
    /\ InFileHandler(g)
    /\ Top(g).pc = "start"
    /\ Top(g).fn = "FileHandler.Output" => FileOpened(Top(g).hd)
    /\ fhMtx' = [fhMtx EXCEPT ![Top(g).hd] = @ \cup {g}]
    /\ stack' = SetTop(g, [Top(g) EXCEPT
            !.evt.Component =
                IF Top(g).fn = "FileHandler.Output"
                THEN ChainComponent(@, HandlerOpts(Top(g).hd).Component)
                ELSE @,
            !.pc = "write"])
    /\ UNCHANGED <<mtxStderr, fsys, ret, trace>> /\ UnchangedHeap

\* Output: chain the component, format; InsertBreak: take the break;
\* then fh.mtx.Lock()
FileLock(g) ==
    /\ InFileHandler(g)
    /\ Top(g).pc = "start"
    /\ Top(g).fn = "FileHandler.Output" => FileOpened(Top(g).hd)
    /\ fhMtx[Top(g).hd] = {}
    /\ fhMtx' = [fhMtx EXCEPT ![Top(g).hd] = {g}]
    /\ stack' = SetTop(g, [Top(g) EXCEPT
            !.evt.Component =
                IF Top(g).fn = "FileHandler.Output"
                THEN ChainComponent(@, HandlerOpts(Top(g).hd).Component)
                ELSE @,
            !.pc = "write"])
    /\ UNCHANGED <<mtxStderr, fsys, ret, trace>> /\ UnchangedHeap

\* fh.f.Write(buf) completes (a nil *os.File makes it return ErrInvalid), the
\* deferred Unlock runs and the handler returns the error
FileWrite(g, fails) ==
    /\ InFileHandler(g)
    /\ Top(g).pc = "write"
    /\ fhMtx' = [fhMtx EXCEPT ![Top(g).hd] = @ \ {g}]
    /\ LET err == IF ~FileOpened(Top(g).hd) THEN ErrInvalid
                  ELSE IF fails THEN WriteErr(Top(g).hd) ELSE NilErr
           buf == FileBuf(Top(g).fn, Top(g).hd)
       IN  /\ ret' = [ret EXCEPT ![g] =
                    Ret(Top(g).fn, err, [hd |-> Top(g).hd])]
           /\ trace' = [trace EXCEPT ![g] = Append(@,
                    [hd |-> Top(g).hd, fn |-> Top(g).fn, evt |-> Top(g).evt,
                     err |-> err])]
           /\ \E n \in (IF fails THEN 0..(Len(buf) - 1) ELSE {Len(buf)}) :
                fsys' = WriteFile(fsys, Top(g).hd, buf, n)
    /\ stack' = Pop(g)
    /\ UNCHANGED mtxStderr /\ UnchangedHeap

----------------------------------------------------------------------------
(* LineFormat.  Strings are sequences of one-character strings here, so    *)
(* that the layout of a formatted line can be inspected.                   *)

NL == "\n"
SP == " "

\* a time.Time: the wall clock in the local zone and the same instant in UTC
Wall(year, month, day, hour, min, sec, nsec) ==
    [year |-> year, month |-> month, day |-> day,
     hour |-> hour, min |-> min, sec |-> sec, nsec |-> nsec]
Time(local, utc) == [local |-> local, utc |-> utc]
UTCOf(t) == Time(t.utc, t.utc)

EventAt(comp, t, lv, msg) ==
    [Component |-> comp, Time |-> t, Level |-> lv, Message |-> msg]

LineFormat(utc, micros) == [UTC |-> utc, ShowMircoseconds |-> micros]

DigitChars == <<"0", "1", "2", "3", "4", "5", "6", "7", "8", "9">>

\* i in decimal, zero-padded to wid digits
RECURSIVE itoa(_, _)
itoa(i, wid) ==
    IF i >= 10 \/ wid > 1
    THEN itoa(i \div 10, wid - 1) \o <<DigitChars[(i % 10) + 1]>>
    ELSE <<DigitChars[i + 1]>>

formatTime(t, utc, micros) ==
    LET w == (IF utc THEN UTCOf(t) ELSE t).local
    IN  itoa(w.year, 4) \o <<"/">> \o itoa(w.month, 2) \o <<"/">>
            \o itoa(w.day, 2) \o <<SP>>
            \o itoa(w.hour, 2) \o <<":">> \o itoa(w.min, 2) \o <<":">>
            \o itoa(w.sec, 2)
            \o (IF micros THEN <<".">> \o itoa(w.nsec \div 1000, 6) ELSE <<>>)

HasSuffix(s, suffix) ==
    /\ Len(s) >= Len(suffix)
    /\ SubSeq(s, Len(s) - Len(suffix) + 1, Len(s)) = suffix

\* mutant: the newline is appended to every message
EnsureNewline_Always(msg) == msg \o <<NL>>

\* the message as it is formatted: a newline is added when it lacks one
EnsureNewline(msg) == IF ~HasSuffix(msg, <<NL>>) THEN msg \o <<NL>> ELSE msg

\* mutant: the field holds exactly width characters
RECURSIVE PadRight_Truncated(_, _)
PadRight_Truncated(s, width) ==
    IF Len(s) > width THEN SubSeq(s, 1, width)
    ELSE IF Len(s) = width THEN s
    ELSE PadRight_Truncated(s \o <<SP>>, width)

\* the verb %-Ns: s left-justified in a field of at least width characters
RECURSIVE PadRight(_, _)
PadRight(s, width) ==
    IF Len(s) >= width THEN s ELSE PadRight(s \o <<SP>>, width)

Format(lf, evt) ==
    LET msg == EnsureNewline(evt.Message)
        timeStr == formatTime(evt.Time, lf.UTC, lf.ShowMircoseconds)
    IN  IF evt.Component # <<>>
        THEN timeStr \o <<SP>> \o PadRight(evt.Level.Name, 5) \o <<SP>>
                 \o <<"(">> \o evt.Component \o <<")">> \o <<SP>> \o msg
        ELSE timeStr \o <<SP>> \o PadRight(evt.Level.Name, 5) \o <<SP>> \o msg

Break(lf) == <<NL>>

\* a call of lf.Format(evt) about to run
FormatFrame(lf, evt) ==
    [Frame("LineFormat.Format", "start") EXCEPT !.lf = lf, !.evt = evt]

FormatReturn(g) ==
    /\ At(g, "LineFormat.Format", "start")
    /\ ret' = [ret EXCEPT ![g] =
                  Ret("LineFormat.Format", Format(Top(g).lf, Top(g).evt),
                      [lf |-> Top(g).lf, evt |-> Top(g).evt])]
    /\ stack' = Pop(g)
    /\ UNCHANGED trace /\ UnchangedHeap /\ UnchangedSinks

----------------------------------------------------------------------------
(* Options builders.  The calling program keeps one Options value and     *)
(* replaces it by the builder's result: opts = opts.WithX(...).            *)

WithComponent(c) ==
    /\ userOpts' = [userOpts EXCEPT !.Component = c]
    /\ UNCHANGED <<loggers, omaps, stack, ret, trace>> /\ UnchangedSinks

WithFormatter(f) ==
    /\ userOpts' = [userOpts EXCEPT !.Formatter = f]
    /\ UNCHANGED <<loggers, omaps, stack, ret, trace>> /\ UnchangedSinks

WithConverter(c) ==
    /\ userOpts' = [userOpts EXCEPT !.Converter = c]
    /\ UNCHANGED <<loggers, omaps, stack, ret, trace>> /\ UnchangedSinks

\* WithHandler makes the map when the receiver has none and otherwise
\* stores into the map the receiver refers to
WithHandler(lv, hdl) ==
    /\ RegCount(HandlersMap(omaps, userOpts)) < MaxOptHandlers
    /\ IF userOpts.Handlers = NilRef
       THEN /\ omaps' = Append(omaps, MapAppend(EmptyMap, lv, <<hdl>>))
            /\ userOpts' = [userOpts EXCEPT !.Handlers = Ref(Len(omaps) + 1)]
       ELSE /\ omaps' = [omaps EXCEPT ![Deref(userOpts.Handlers)] =
                            MapAppend(@, lv, <<hdl>>)]
            /\ UNCHANGED userOpts
    /\ UNCHANGED <<loggers, stack, ret, trace>> /\ UnchangedSinks

----------------------------------------------------------------------------
(* Logger.Copy                                                             *)

\* the program calls lg.Copy(opts) with the Options value it built; the
\* receiver is a Logger value, so lg.opts is the caller's copy of the fields
CallCopy(g, l) ==
    /\ Idle(g)
    /\ l \in 1..Len(loggers)
    /\ Len(loggers) < MaxLoggers
    /\ stack' = Push(g, [Frame("Copy", "lock") EXCEPT
                            !.lg = l, !.opts = userOpts,
                            !.lgOpts = loggers[l].opts])
    /\ ret' = [ret EXCEPT ![g] = NoRet]
    /\ trace' = [trace EXCEPT ![g] = <<>>]
    /\ UnchangedHeap /\ UnchangedSinks

\* the merge of the non-handler fields, then (*lg.mtx).Lock()
CopyLock(g) ==
    /\ At(g, "Copy", "lock")
    /\ loggers[Top(g).lg].mtx = {}
    /\ loggers' = [loggers EXCEPT ![Top(g).lg].mtx = {g}]
    /\ stack' = SetTop(g, [Top(g) EXCEPT !.pc = "body"])
    /\ UNCHANGED <<omaps, userOpts, ret, trace>> /\ UnchangedSinks

\* mutant: Copy keeps the registry lock after the snapshot
CopyMergeCurrent_NoUnlock(g) ==
    /\ At(g, "Copy", "body")
    /\ LET f == Top(g)
           lg == loggers[f.lg]
           hmap == HandlersMap(omaps, f.opts)
       IN  \E bucketOrder \in Orders(DOMAIN lg.h), keyOrder \in Orders(DOMAIN hmap) :
             stack' = SetTop(g, [f EXCEPT
                !.snap = lg.h,
                !.mergedHandlers =
                    MergeCurrent(EmptyMap, CurrentEntries(lg.h, bucketOrder),
                                 OptAdded(hmap, keyOrder)),
                !.pc = "new"])
    /\ UNCHANGED <<loggers, omaps, userOpts, ret, trace>> /\ UnchangedSinks

\* mutant: Copy takes the handlers out of the receiver
CopyMergeCurrent_MovesHandlers(g) ==
    /\ At(g, "Copy", "body")
    /\ LET f == Top(g)
           lg == loggers[f.lg]
           hmap == HandlersMap(omaps, f.opts)
       IN  \E bucketOrder \in Orders(DOMAIN lg.h), keyOrder \in Orders(DOMAIN hmap) :
             stack' = SetTop(g, [f EXCEPT
                !.snap = lg.h,
                !.mergedHandlers =
                    MergeCurrent(EmptyMap, CurrentEntries(lg.h, bucketOrder),
                                 OptAdded(hmap, keyOrder)),
                !.pc = "new"])
    /\ loggers' = [loggers EXCEPT ![Top(g).lg].mtx = {},
                                  ![Top(g).lg].h = EmptyMap]
    /\ UNCHANGED <<omaps, userOpts, ret, trace>> /\ UnchangedSinks

\* the snapshot of lg.h (buckets visited in bucketOrder), Unlock, the list
\* of handlers of opts.Handlers, and the loop that carries over the current
\* entries the options do not name
CopyMergeCurrent(g) ==
    /\ At(g, "Copy", "body")
    /\ LET f == Top(g)
           lg == loggers[f.lg]
           hmap == HandlersMap(omaps, f.opts)
       IN  \E bucketOrder \in Orders(DOMAIN lg.h), keyOrder \in Orders(DOMAIN hmap) :
             stack' = SetTop(g, [f EXCEPT
                !.snap = lg.h,
                !.mergedHandlers =
                    MergeCurrent(EmptyMap, CurrentEntries(lg.h, bucketOrder),
                                 OptAdded(hmap, keyOrder)),
                !.pc = "new"])
    /\ loggers' = [loggers EXCEPT ![Top(g).lg].mtx = {}]
    /\ UNCHANGED <<omaps, userOpts, ret, trace>> /\ UnchangedSinks

\* the loop that adds the entries of opts.Handlers
CopyMergeNew(g) ==
    /\ At(g, "Copy", "new")
    /\ LET f == Top(g)
           hmap == HandlersMap(omaps, f.opts)
       IN  \E keyOrder \in Orders(DOMAIN hmap) :
             stack' = SetTop(g, [f EXCEPT
                !.mergedHandlers = MergeNew(@, hmap, keyOrder),
                !.pc = "return"])
    /\ UNCHANGED <<ret, trace>> /\ UnchangedHeap /\ UnchangedSinks

\* merged.Handlers = mergedHandlers when it has entries; return New(merged)
CopyReturn(g) ==
    /\ At(g, "Copy", "return")
    /\ LET f == Top(g)
           fields == MergedFields(f.lgOpts, f.opts)
           merged == IF DOMAIN f.mergedHandlers # {}
                     THEN [fields EXCEPT !.Handlers = Ref(Len(omaps) + 1)]
                     ELSE fields
           maps == IF DOMAIN f.mergedHandlers # {}
                   THEN Append(omaps, f.mergedHandlers) ELSE omaps
       IN  \E newOrder \in Orders(DOMAIN f.mergedHandlers) :
             /\ omaps' = maps
             /\ loggers' = Append(loggers, NewLogger(maps, merged, newOrder))
             /\ ret' = [ret EXCEPT ![g] =
                    Ret("Copy", Len(loggers) + 1,
                        [lg |-> f.lg, opts |-> f.opts,
                         hmap |-> HandlersMap(omaps, f.opts),
                         h |-> f.snap, lgOpts |-> f.lgOpts])]
    /\ stack' = Pop(g)
    /\ UNCHANGED <<userOpts, trace>> /\ UnchangedSinks

----------------------------------------------------------------------------
(* A goroutine inside a call runs the next step of the method on top of    *)
(* its stack.                                                              *)

RegistryStep(g) ==
    \/ AddHandlerLock(g)
    \/ AddHandlerRead(g)
    \/ AddHandlerBody(g)

LookupStep(g) ==
    \/ HandlersForLevelLock(g)
    \/ HandlersForLevelBody(g)

CopyStep(g) ==
    \/ CopyLock(g)
    \/ CopyMergeCurrent(g)
    \/ CopyMergeNew(g)
    \/ CopyReturn(g)

DispatchStep(g) ==
    \/ LoggerOutputStart(g)
    \/ LoggerInsertBreakStart(g)
    \/ LoggerDispatch(g)
    \/ LoggerLoopCall(g)
    \/ LoggerLoopCollect(g)
    \/ LoggerReturn(g)

StderrStep(g) ==
    \/ StderrLock(g)
    \/ \E fails \in BOOLEAN : StderrWrite(g, fails)

FileStep(g) ==
    \/ FileLock(g)
    \/ \E fails \in BOOLEAN : FileWrite(g, fails)

----------------------------------------------------------------------------
(* Specification Spec: one goroutine registers handlers on a Logger made   *)
(* by New and dispatches events and breaks through it.                     *)

RegLevels == {LvAll, LvInfo, Level("NOTICE", 50), Level("EVERYTHING", MaxInt)}
EvtLevels ==
    {Level("LOWEST", minPossibleSeverity), Level("VERBOSE", -300), LvInfo,
     LvFatal, LvAll}
SeqHandlers == {"se1", "fh1", "fh0"}
Components == {"", "server"}

InitSinks ==
    /\ mtxStderr = {}
    /\ fhMtx = [hd \in FileHandlers |-> {}]
    /\ fsys = NoFiles

InitGoroutines ==
    /\ stack = [g \in G |-> <<>>]
    /\ ret = [g \in G |-> NoRet]
    /\ trace = [g \in G |-> <<>>]
    /\ exited = <<>>

Init ==
    /\ \E c \in Components :
         loggers = <<NewLogger(<<>>, [Defaults EXCEPT !.Component = c], <<>>)>>
    /\ omaps = <<>>
    /\ userOpts = Defaults
    /\ InitSinks
    /\ InitGoroutines

Next ==
    \/ \E lv \in RegLevels, out \in SeqHandlers : CallAddHandler(1, 1, lv, out)
    \/ \E lv \in EvtLevels, c \in {"", "ext"} :
         CallOutput(1, 1, Event(c, lv, "msg"))
    \/ \E lv \in EvtLevels : CallInsertBreak(1, 1, lv)
    \/ \E lv \in EvtLevels : CallHandlersForLevel(1, 1, lv)
    \/ RegistryStep(1)
    \/ LookupStep(1)
    \/ DispatchStep(1)
    \/ StderrStep(1)
    \/ FileOutputNotOpened(1)
    \/ FileStep(1)

Spec == Init /\ [][Next]_vars

----------------------------------------------------------------------------
(* Specification SpecCopy: the program registers handlers on a Logger,     *)
(* builds an Options value with WithHandler, copies the Logger with it,    *)
(* and copies the copy.                                                    *)

CopyLevels == {LvAll, LvInfo, Level("NOTICE", 50)}
CopyOptLevels == {LvAll, Level("INFO2", 0)}
CopyRegHandlers == {"se1", "fh1"}
CopyOptHandlers == {"fh1", "fh2"}

InitCopy ==
    /\ loggers = <<NewLogger(<<>>, [Defaults EXCEPT !.Component = "server"], <<>>)>>
    /\ omaps = <<>>
    /\ userOpts = Defaults
    /\ InitSinks
    /\ InitGoroutines

NextCopy ==
    \/ \E lv \in CopyLevels, out \in CopyRegHandlers :
         Len(loggers) = 1 /\ CallAddHandler(1, 1, lv, out)
    \/ \E lv \in CopyOptLevels, hdl \in CopyOptHandlers :
         Len(loggers) = 1 /\ Idle(1) /\ WithHandler(lv, hdl)
    \/ CallCopy(1, Len(loggers))
    \/ RegistryStep(1)
    \/ CopyStep(1)

SpecCopy == InitCopy /\ [][NextCopy]_vars

----------------------------------------------------------------------------
(* Specification SpecOptions: the program builds an Options value with    *)
(* the With* builders, copies a Logger with it, and copies the copy.       *)

InitOptsSet ==
    { Defaults,
      [Defaults EXCEPT !.Component = "server"],
      [Component |-> "server", Formatter |-> "fmtA", Converter |-> "convA",
       Handlers |-> NilRef] }

InitOptions ==
    /\ \E o \in InitOptsSet : loggers = <<NewLogger(<<>>, o, <<>>)>>
    /\ omaps = <<>>
    /\ userOpts = Defaults
    /\ InitSinks
    /\ InitGoroutines

NextOptions ==
    \/ \E c \in {"", "db"} : Len(loggers) = 1 /\ Idle(1) /\ WithComponent(c)
    \/ \E f \in {NilFormatter, "fmtB"} :
         Len(loggers) = 1 /\ Idle(1) /\ WithFormatter(f)
    \/ \E c \in {NilConverter, "convB"} :
         Len(loggers) = 1 /\ Idle(1) /\ WithConverter(c)
    \/ Len(loggers) = 1 /\ Idle(1) /\ WithHandler(LvInfo, "se1")
    \/ \E l \in 1..MaxLoggers : CallCopy(1, l)
    \/ CopyStep(1)

SpecOptions == InitOptions /\ [][NextOptions]_vars

----------------------------------------------------------------------------
(* Specification SpecSinks: goroutines call Output and InsertBreak of the  *)
(* stderr and file handlers concurrently.                                  *)

SinkHandlers == {"se1", "se2", "fh1", "fh2"}

InitSinksOnly ==
    /\ loggers = <<NewLogger(<<>>, Defaults, <<>>)>>
    /\ omaps = <<>>
    /\ userOpts = Defaults
    /\ InitSinks
    /\ InitGoroutines

NextSinks ==
    \E g \in G :
        \/ \E hd \in SinkHandlers, c \in {"", "ext"} :
             CallHandler(g, hd, "Output", Event(c, LvInfo, "msg"))
        \/ \E hd \in SinkHandlers :
             CallHandler(g, hd, "InsertBreak", Event("", Level("", 0), ""))
        \/ StderrStep(g)
        \/ FileStep(g)

SpecSinks == InitSinksOnly /\ [][NextSinks]_vars

----------------------------------------------------------------------------
(* Specification SpecConc: goroutines use one Logger concurrently.         *)
(* Goroutine 1 dispatches events and breaks; every goroutine adds handlers *)
(* and looks handlers up.                                                  *)

InitConc ==
    /\ omaps = <<MapAppend(EmptyMap, LvAll, <<"se1">>)>>
    /\ userOpts = [Defaults EXCEPT !.Handlers = Ref(1)]
    /\ loggers = <<NewLogger(omaps, userOpts, <<LvAll>>)>>
    /\ InitSinks
    /\ InitGoroutines

NextConc ==
    \E g \in G :
        \/ CallAddHandler(g, 1, LvInfo, "fh1")
        \/ g = 1 /\ CallOutput(g, 1, Event("", LvInfo, "msg"))
        \/ g = 1 /\ CallInsertBreak(g, 1, LvAll)
        \/ CallHandlersForLevel(g, 1, LvInfo)
        \/ RegistryStep(g)
        \/ LookupStep(g)
        \/ DispatchStep(g)
        \/ StderrStep(g)
        \/ FileStep(g)

SpecConc == InitConc /\ [][NextConc]_vars

----------------------------------------------------------------------------
(* Specification SpecLog: one goroutine logs through a Logger made by New  *)
(* with handlers in its options: the package's default logger, and Loggers *)
(* with a stderr handler at INFO and a file handler at ALL.                *)

LogConfigs ==
    {[Component |-> "", Handlers |-> (LvTrace :> <<"se1">>)],
     [Component |-> "server",
      Handlers |-> (LvInfo :> <<"se1">>) @@ (LvAll :> <<"fh1">>)],
     [Component |-> "server",
      Handlers |-> (LvInfo :> <<"se1">>) @@ (LvAll :> <<"fh2">>)],
     [Component |-> "",
      Handlers |-> (LvInfo :> <<"se2">>) @@ (LvAll :> <<"fh2">>)]}

LogLevels == {LvDebug, LvInfo}
\* the component of an event that an upstream hop passes to Output
UpstreamComponent == "up"
Messages == {[isEType |-> TRUE, v |-> "x"], [isEType |-> FALSE, v |-> "42"]}

InitLog ==
    /\ \E cfg \in LogConfigs : \E keyOrder \in Orders(DOMAIN cfg.Handlers) :
        /\ omaps = <<cfg.Handlers>>
        /\ userOpts = [Defaults EXCEPT !.Component = cfg.Component,
                                       !.Handlers = Ref(1)]
        /\ loggers = <<NewLogger(omaps, userOpts, keyOrder)>>
    /\ InitSinks
    /\ InitGoroutines

NextLog ==
    /\ exited = <<>>
    /\ \/ \E method \in {"Log", "Logf", "Info", "Errorf"}, lv \in LogLevels,
            msg \in Messages : CallLog(1, 1, method, lv, msg)
       \/ \E method \in FatalMethods, msg \in Messages :
            CallLog(1, 1, method, LvFatal, msg)
       \/ CallOutput(1, 1, Event(UpstreamComponent, LvInfo, "x"))
       \/ \E lv \in LogLevels \cup {LvAll} : CallInsertBreak(1, 1, lv)
       \/ LogStep(1)
       \/ LookupStep(1)
       \/ DispatchStep(1)
       \/ StderrStep(1)
       \/ FileStep(1)

SpecLog == InitLog /\ [][NextLog]_vars

\* the goroutine keeps running while the process lives
SpecLogFair == SpecLog /\ WF_vars(NextLog)

----------------------------------------------------------------------------
(* Specification SpecStd: the program logs through the package-level       *)
(* functions, which use the default logger std as init() leaves it.        *)

\* std = New[string](nil), then init(): std.AddHandler(LvTrace, &StderrHandler{})
StdAfterInit ==
    [NewLogger(<<>>, Defaults, <<>>) EXCEPT
        !.h = AddHandlerTo(@, LvTrace, "se1"),
        !.regs = @ (+) Reg(LvTrace, "se1")]

PrintFunctions == {"Print", "Printf", "Println"}

\* a package-level function has the body of std's method of the same name:
\* evt := std.CreateEvent(lv, msg); std.Output(2, evt).  Print, Printf and
\* Println log at INFO.
CallPackageLevel(g, fn, lv, msg) ==
    CallLog(g, 1, IF fn \in PrintFunctions THEN "Info" ELSE fn, lv, msg)

StdLevels ==
    {Level("VERBOSE", -300), LvTrace, LvInfo, Level("NOTICE", 50), LvAll}

InitStd ==
    /\ loggers = <<StdAfterInit>>
    /\ omaps = <<>>
    /\ userOpts = Defaults
    /\ InitSinks
    /\ InitGoroutines

NextStd ==
    /\ exited = <<>>
    /\ \/ \E fn \in {"Log", "Logf", "Trace", "Warnf", "Print", "Println"},
            lv \in StdLevels, msg \in Messages :
            CallPackageLevel(1, fn, lv, msg)
       \/ \E msg \in Messages : CallPackageLevel(1, "Fatal", LvFatal, msg)
       \/ \E lv \in StdLevels : CallInsertBreak(1, 1, lv)
       \/ LogStep(1)
       \/ LookupStep(1)
       \/ DispatchStep(1)
       \/ StderrStep(1)

SpecStd == InitStd /\ [][NextStd]_vars

----------------------------------------------------------------------------
(* Specification SpecFile: the program opens FileHandlers with OpenFile on *)
(* one path, which exists with content or does not exist yet, and          *)
(* goroutines write through the handlers opened so far.                    *)

PriorContent == <<"old\n">>
TrackedHandlers == {"fh1", "fh2"}

InitFile ==
    /\ loggers = <<NewLogger(<<>>, Defaults, <<>>)>>
    /\ omaps = <<>>
    /\ userOpts = Defaults
    /\ mtxStderr = {}
    /\ fhMtx = [hd \in FileHandlers |-> {}]
    /\ fsys \in {NoFiles,
                 [files |-> ("app.log" :> PriorContent), fds |-> EmptyMap]}
    /\ InitGoroutines

\* the program stops logging once the file holds MaxFileLen bytes
FileHasRoom(hd) ==
    /\ hd \in DOMAIN fsys.fds
    /\ Len(fsys.files[fsys.fds[hd].path]) < MaxFileLen

\* goroutine 1 opens the handlers and logs through fh1, the other goroutines
\* log through fh2
HandlerUsedBy(g) == IF g = 1 THEN "fh1" ELSE "fh2"

NextFile ==
    \/ \E hd \in TrackedHandlers, ok \in BOOLEAN :
         OpenFile(1, hd, "app.log", ok)
    \/ \E g \in G :
         FileHasRoom(HandlerUsedBy(g))
            /\ CallHandler(g, HandlerUsedBy(g), "Output",
                           Event("", LvInfo, "msg"))
    \/ \E g \in G :
         FileHasRoom(HandlerUsedBy(g))
            /\ CallHandler(g, HandlerUsedBy(g), "InsertBreak",
                           Event("", Level("", 0), ""))
    \/ \E g \in G : FileStep(g)

SpecFile == InitFile /\ [][NextFile]_vars

----------------------------------------------------------------------------
(* Specification SpecOrder: a Logger is made by New from options that hold *)
(* handler lists, among them lists under two Level keys of one severity;   *)
(* the program adds handlers and dispatches.                               *)

OrderConfigs ==
    {(LvInfo :> <<"se1">>),
     (LvInfo :> <<"se1", "fh1">>) @@ (Level("INFO2", 0) :> <<"se2">>),
     (LvAll :> <<"fh1", "se1">>) @@ (LvTrace :> <<"se2">>)}

InitOrder ==
    /\ \E hmap \in OrderConfigs : \E keyOrder \in Orders(DOMAIN hmap) :
        /\ omaps = <<hmap>>
        /\ userOpts = [Defaults EXCEPT !.Handlers = Ref(1)]
        /\ loggers = <<NewLogger(omaps, userOpts, keyOrder)>>
    /\ InitSinks
    /\ InitGoroutines

NextOrder ==
    \/ \E lv \in {LvInfo, LvAll}, out \in {"se2", "fh1"} :
         CallAddHandler(1, 1, lv, out)
    \/ \E lv \in {LvDebug, LvInfo} : CallOutput(1, 1, Event("", lv, "msg"))
    \/ CallInsertBreak(1, 1, LvAll)
    \/ \E lv \in {LvDebug, LvInfo} : CallHandlersForLevel(1, 1, lv)
    \/ RegistryStep(1)
    \/ LookupStep(1)
    \/ DispatchStep(1)
    \/ StderrStep(1)
    \/ FileStep(1)

SpecOrder == InitOrder /\ [][NextOrder]_vars

----------------------------------------------------------------------------
(* Specification SpecFrame: the program adds handlers to a Logger, copies  *)
(* it with options that name handlers, and uses the original and the copy  *)
(* side by side: adding, looking up, dispatching and logging.              *)

InitFrame ==
    /\ loggers = <<NewLogger(<<>>, Defaults, <<>>)>>
    /\ omaps = <<>>
    /\ userOpts = Defaults
    /\ InitSinks
    /\ InitGoroutines

\* the original and its copy
FrameLoggers == {1, 2}

NextFrame ==
    \/ \E l \in FrameLoggers, reg \in {<<LvInfo, "se1">>, <<LvAll, "fh1">>} :
         CallAddHandler(1, l, reg[1], reg[2])
    \/ Len(loggers) = 1 /\ Idle(1) /\ WithHandler(LvWarn, "se1")
    \/ Len(loggers) = 1 /\ CallCopy(1, 1)
    \/ \E l \in FrameLoggers : CallOutput(1, l, Event("", LvInfo, "msg"))
    \/ \E l \in FrameLoggers : CallInsertBreak(1, l, LvAll)
    \/ \E l \in FrameLoggers : CallHandlersForLevel(1, l, LvInfo)
    \/ \E l \in FrameLoggers :
         CallLog(1, l, "Warn", LvWarn, [isEType |-> TRUE, v |-> "x"])
    \/ LogOutput(1)
    \/ LogReturn(1)
    \/ RegistryStep(1)
    \/ LookupStep(1)
    \/ DispatchStep(1)
    \/ CopyStep(1)
    \/ StderrStep(1)
    \/ FileStep(1)

SpecFrame == InitFrame /\ [][NextFrame]_vars

----------------------------------------------------------------------------
(* Specification SpecLive: goroutines call the five operations of one      *)
(* Logger and of its copies side by side.  Goroutine 1 dispatches events   *)
(* and breaks, which look the handlers up under the registry lock, while   *)
(* goroutine 2 adds handlers, looks handlers up and copies the Logger.     *)
(* The handlers are the package's                                          *)
(* StderrHandler and FileHandler: Logger.InsertBreak takes a Level, so a   *)
(* Logger is not a Handler and AddHandler does not accept one.             *)

LiveCall(g) ==
    \/ g = 1 /\ CallOutput(g, 1, Event("", LvInfo, "msg"))
    \/ g = 1 /\ CallInsertBreak(g, 1, LvAll)
    \/ g = 2 /\ CallAddHandler(g, 1, LvInfo, "fh1")
    \/ g = 2 /\ Len(loggers) = 1 /\ CallCopy(g, 1)
    \/ g = 2 /\ CallHandlersForLevel(g, 1, LvInfo)

\* the next step of the operation goroutine g is in
LiveStep(g) ==
    \/ RegistryStep(g)
    \/ LookupStep(g)
    \/ CopyStep(g)
    \/ DispatchStep(g)
    \/ StderrStep(g)
    \/ FileStep(g)

NextLive == \E g \in G : LiveCall(g) \/ LiveStep(g)

\* the scheduler runs every goroutine that can run, and a goroutine that
\* waits in Lock gets the mutex when it is free again and again
SpecLive ==
    InitConc /\ [][NextLive]_vars /\ \A g \in G : SF_vars(LiveStep(g))

----------------------------------------------------------------------------
(* Specification SpecPair: a Logger and its copy used side by side by two  *)
(* goroutines.  Goroutine 1 uses the original and inserts breaks;          *)
(* goroutine 2 copies the original and then uses the copy.                 *)

PairGoroutines == {1, 2}
LoggerUsedBy(g) == IF g = 1 THEN 1 ELSE 2

PairCall(g) ==
    \/ g = 2 /\ Len(loggers) = 1 /\ CallCopy(g, 1)
    \/ CallAddHandler(g, LoggerUsedBy(g), LvInfo, "fh1")
    \/ CallHandlersForLevel(g, LoggerUsedBy(g), LvInfo)
    \/ CallOutput(g, LoggerUsedBy(g), Event("", LvInfo, "msg"))
    \/ g = 1 /\ CallInsertBreak(g, LoggerUsedBy(g), LvAll)

NextPair == \E g \in PairGoroutines : PairCall(g) \/ LiveStep(g)

SpecPair == InitConc /\ [][NextPair]_vars

----------------------------------------------------------------------------
(* Specification SpecIso: one goroutine sends events through a Logger      *)
(* whose handlers have components of their own, registered in either       *)
(* order, twice, or next to handlers without a component.                  *)

IsoConfigs ==
    {(LvInfo :> <<"se2", "fh2">>),
     (LvInfo :> <<"fh2", "se2">>),
     (LvInfo :> <<"se2", "se2">>),
     (LvInfo :> <<"se1", "fh2">>) @@ (LvAll :> <<"se2">>)}

InitIso ==
    /\ \E hmap \in IsoConfigs, c \in Components :
        \E keyOrder \in Orders(DOMAIN hmap) :
            /\ omaps = <<hmap>>
            /\ userOpts = [Defaults EXCEPT !.Component = c, !.Handlers = Ref(1)]
            /\ loggers = <<NewLogger(omaps, userOpts, keyOrder)>>
    /\ InitSinks
    /\ InitGoroutines

NextIso ==
    \/ \E c \in {"", "ext"} : CallOutput(1, 1, Event(c, LvInfo, "msg"))
    \/ CallLog(1, 1, "Info", LvInfo, [isEType |-> TRUE, v |-> "x"])
    \/ CallInsertBreak(1, 1, LvAll)
    \/ LogOutput(1)
    \/ LogReturn(1)
    \/ LookupStep(1)
    \/ DispatchStep(1)
    \/ StderrStep(1)
    \/ FileStep(1)

SpecIso == InitIso /\ [][NextIso]_vars

----------------------------------------------------------------------------
(* Specification SpecLocks: two goroutines send events through one Logger, *)
(* whose handlers write to stderr and to a file, while goroutine 1 also    *)
(* inserts breaks and goroutine 2 adds a handler, looks handlers up and    *)
(* copies the Logger.                                                      *)

LocksCall(g) ==
    \/ CallOutput(g, 1, Event("", LvInfo, "msg"))
    \/ g = 1 /\ CallInsertBreak(g, 1, LvAll)
    \/ g = 2 /\ CallAddHandler(g, 1, LvInfo, "fh1")
    \/ g = 2 /\ CallHandlersForLevel(g, 1, LvInfo)
    \/ g = 2 /\ Len(loggers) = 1 /\ CallCopy(g, 1)

NextLocks == \E g \in PairGoroutines : LocksCall(g) \/ LiveStep(g)

SpecLocks == InitConc /\ [][NextLocks]_vars

----------------------------------------------------------------------------
(* Specification SpecFormat: the program formats one event with LineFormat: *)
(* every message up to MaxMsgLen characters, level names shorter than,     *)
(* as long as and longer than the level field, with and without component. *)

MsgAlphabet == {"x", "(", NL}
FormatMessages == UNION {[1..n -> MsgAlphabet] : n \in 0..MaxMsgLen}
FormatComponents == {<<>>, <<"a">>, <<"a", ".", "b">>}
FormatLevels ==
    {Level(<<"O", "K">>, 10),
     Level(<<"D", "E", "B", "U", "G">>, LvDebug.Severity),
     Level(<<"W", "A", "R", "N", "I", "N", "G">>, LvWarn.Severity)}
FormatTimes ==
    {Time(Wall(2023, 7, 20, 9, 5, 0, 0), Wall(2023, 7, 20, 14, 5, 0, 0)),
     Time(Wall(987, 12, 31, 23, 59, 58, 123456789),
          Wall(988, 1, 1, 4, 59, 58, 123456789))}
LineFormats == {LineFormat(utc, micros) : utc, micros \in BOOLEAN}

InitFormat ==
    /\ loggers = <<NewLogger(<<>>, Defaults, <<>>)>>
    /\ omaps = <<>>
    /\ userOpts = Defaults
    /\ InitSinks
    /\ \E lf \in LineFormats, c \in FormatComponents, t \in FormatTimes,
          lv \in FormatLevels, msg \in FormatMessages :
          stack = [g \in G |-> IF g = 1
                                THEN <<FormatFrame(lf, EventAt(c, t, lv, msg))>>
                                ELSE <<>>]
    /\ ret = [g \in G |-> NoRet]
    /\ trace = [g \in G |-> <<>>]
    /\ exited = <<>>

NextFormat == FormatReturn(1)

SpecFormat == InitFormat /\ [][NextFormat]_vars

----------------------------------------------------------------------------
(* Specification SpecLoggerGo: the README's program on the Logger of       *)
(* logger.go: handlers are added at INFO and at ALL, and events of the six *)
(* named levels are dispatched.                                            *)

LoggerGoRegLevels == {LvInfo, LvAll}
NamedLevels == {LvTrace, LvDebug, LvInfo, LvWarn, LvError, LvFatal}
LoggerGoHandlers == {"se1", "fh1"}

InitLoggerGo ==
    /\ loggers = <<LoggerGo_New(Defaults)>>
    /\ omaps = <<>>
    /\ userOpts = Defaults
    /\ InitSinks
    /\ InitGoroutines

NextLoggerGo ==
    \/ \E lv \in LoggerGoRegLevels, out \in LoggerGoHandlers :
         LoggerGo_CallAddHandler(1, 1, lv, out)
    \/ \E lv \in NamedLevels : CallOutput(1, 1, Event("", lv, "msg"))
    \/ CallInsertBreak(1, 1, LvAll)
    \/ LoggerGo_RegistryStep(1)
    \/ LookupStep(1)
    \/ DispatchStep(1)
    \/ StderrStep(1)
    \/ FileStep(1)

SpecLoggerGo == InitLoggerGo /\ [][NextLoggerGo]_vars

----------------------------------------------------------------------------
(* Properties of dispatch, checked under Spec.                             *)

\* how many entries of the sequence s satisfy P
Count(s, P(_)) == Cardinality({k \in 1..Len(s) : P(s[k])})

\* goroutine g has just returned from fn
Returned(g, fn) == Idle(g) /\ ret[g].fn = fn

\* the calls of handler hd's method recorded for g's operation
Calls(g, hd) == LET P(e) == e.hd = hd IN Count(trace[g], P)

\* how many registrations of the bag regs satisfy P
CountRegs(regs, P(_)) ==
    BagCardinality([r \in {x \in DOMAIN regs : P(x)} |-> regs[r]])

\* the threshold the ALL sentinel stands for is the lowest integer
C1_Threshold(lv) ==
    IF lv.Severity = MaxInt THEN (0 - MaxInt) - 1 ELSE lv.Severity

\* C1 as stated: Output of an event at level L2 calls h.Output, once per
\* registration of h at a level L1, if and only if
\* severity(L1) <= severity(L2).
C1_Original ==
    \A g \in G : Returned(g, "Logger.Output") =>
        \A hd \in Handlers :
            LET P(r) == r.hd = hd
                          /\ r.lv.Severity <= ret[g].info.evt.Level.Severity
            IN  Calls(g, hd) = CountRegs(loggers[ret[g].info.lg].regs, P)

\* C1 amended: Output of an event at level L2 calls h.Output, once per
\* registration of h at a level L1, if and only if
\* threshold(L1) <= severity(L2), where threshold(L1) is the lowest integer
\* when severity(L1) is that of LvAll and severity(L1) otherwise.
C1_DispatchByThreshold ==
    \A g \in G : Returned(g, "Logger.Output") =>
        \A hd \in Handlers :
            LET P(r) == r.hd = hd
                          /\ C1_Threshold(r.lv) <= ret[g].info.evt.Level.Severity
            IN  Calls(g, hd) = CountRegs(loggers[ret[g].info.lg].regs, P)

\* an Output returned that reached one registered handler and skipped another
C1_Witness ==
    \E g \in G :
        /\ Returned(g, "Logger.Output")
        /\ \E r1, r2 \in DOMAIN loggers[ret[g].info.lg].regs :
              /\ r1.hd # r2.hd
              /\ r1.lv.Severity <= ret[g].info.evt.Level.Severity
              /\ r2.lv.Severity > ret[g].info.evt.Level.Severity
              /\ r2.lv.Severity # MaxInt
              /\ Calls(g, r1.hd) = 1
              /\ Calls(g, r2.hd) = 0

\* C2: a handler registered under a Level whose severity is LvAll's is kept
\* in the bucket of the lowest integer (no bucket is keyed by LvAll's own
\* severity), and every Output calls it, whatever the event's severity.
C2_AllReceivesEverything ==
    \A l \in 1..Len(loggers) :
        /\ MaxInt \notin DOMAIN loggers[l].h
        /\ \A r \in DOMAIN loggers[l].regs :
                  r.lv.Severity = LvAll.Severity =>
                    /\ (0 - MaxInt) - 1 \in DOMAIN loggers[l].h
                    /\ \E j \in 1..Len(loggers[l].h[(0 - MaxInt) - 1]) :
                          loggers[l].h[(0 - MaxInt) - 1][j] = r.hd
                    /\ \A g \in G :
                          Returned(g, "Logger.Output") /\ ret[g].info.lg = l
                              => Calls(g, r.hd) >= 1

\* an event below TRACE reached a handler registered under LvAll
C2_Witness ==
    \E g \in G :
        /\ Returned(g, "Logger.Output")
        /\ ret[g].info.evt.Level.Severity < LvTrace.Severity
        /\ \E r \in DOMAIN loggers[ret[g].info.lg].regs :
              /\ r.lv = LvAll
              /\ Calls(g, r.hd) >= 1

\* the pieces of an error message
Pieces(err) == {err.msg[k] : k \in 1..Len(err.msg)}

\* C3: Output calls every matching handler in turn, also after a handler
\* returned an error; it returns nil iff no handler returned an error, and
\* otherwise an error whose message includes every failing handler's error.
C3_NoShortCircuit ==
    \A g \in G : Returned(g, "Logger.Output") =>
        /\ Len(trace[g]) = Len(ret[g].info.dispatch)
        /\ \A k \in 1..Len(trace[g]) :
              /\ trace[g][k].hd = ret[g].info.dispatch[k]
              /\ ~trace[g][k].err.isNil =>
                    /\ ~ret[g].val.isNil
                    /\ Pieces(trace[g][k].err) \subseteq Pieces(ret[g].val)
        /\ ret[g].val.isNil <=> \A k \in 1..Len(trace[g]) : trace[g][k].err.isNil

\* a handler failed and a sibling called after it wrote the event
C3_Witness ==
    \E g \in G :
        /\ Returned(g, "Logger.Output")
        /\ Len(trace[g]) >= 2
        /\ ~trace[g][1].err.isNil
        /\ trace[g][2].err.isNil
        /\ ~ret[g].val.isNil

----------------------------------------------------------------------------
(* Properties of Copy, checked under SpecCopy and SpecOptions.             *)

\* how often handler hd is registered in bucket b of registry h
RegAt(h, b, hd) ==
    IF b \in DOMAIN h THEN LET P(x) == x = hd IN Count(h[b], P) ELSE 0

\* how often the options map hmap names hd under a Level of threshold b
RECURSIVE OptAtKeys(_, _, _, _)
OptAtKeys(hmap, keys, b, hd) ==
    IF keys = {} THEN 0
    ELSE LET lv == CHOOSE x \in keys : TRUE
             P(x) == x = hd
         IN  (IF C1_Threshold(lv) = b THEN Count(hmap[lv], P) ELSE 0)
             + OptAtKeys(hmap, keys \ {lv}, b, hd)
OptAt(hmap, b, hd) == OptAtKeys(hmap, DOMAIN hmap, b, hd)

InRegistry(h, hd) == \E b \in DOMAIN h : RegAt(h, b, hd) > 0
InOptions(hmap, hd) ==
    \E lv \in DOMAIN hmap : \E k \in 1..Len(hmap[lv]) : hmap[lv][k] = hd

\* every bucket the original, the options or the copy can name
BucketsOf(g) ==
    DOMAIN ret[g].info.h \cup DOMAIN loggers[ret[g].val].h
    \cup {C1_Threshold(lv) : lv \in DOMAIN ret[g].info.hmap}

\* the registries h1 and h2 hold the same registrations (handler, threshold)
SameRegistrations(h1, h2) ==
    \A b \in DOMAIN h1 \cup DOMAIN h2 : \A hd \in Handlers :
        RegAt(h1, b, hd) = RegAt(h2, b, hd)

\* C4: a handler of the original registry that opts.Handlers names too is
\* registered in the copy exactly as opts.Handlers says (once per entry, in
\* the bucket of that entry's Level) and nowhere else, whatever buckets it
\* had in the original.
C4_MovedToOptionsThreshold ==
    \A g \in G : Returned(g, "Copy") =>
        \A hd \in Handlers :
            InRegistry(ret[g].info.h, hd) /\ InOptions(ret[g].info.hmap, hd) =>
                \A b \in BucketsOf(g) :
                    RegAt(loggers[ret[g].val].h, b, hd)
                        = OptAt(ret[g].info.hmap, b, hd)

\* a handler registered in two buckets of the original was moved to one
\* other bucket by the options
C4_Witness ==
    \E g \in G :
        /\ Returned(g, "Copy")
        /\ \E hd \in Handlers :
              /\ Cardinality({b \in DOMAIN ret[g].info.h :
                                RegAt(ret[g].info.h, b, hd) > 0}) >= 2
              /\ InOptions(ret[g].info.hmap, hd)
              /\ \E b \in DOMAIN loggers[ret[g].val].h :
                    /\ RegAt(loggers[ret[g].val].h, b, hd) = 1
                    /\ RegAt(ret[g].info.h, b, hd) = 0

\* C5: a handler only in the original registry keeps exactly its original
\* registrations in the copy, a handler only in opts.Handlers is registered
\* as opts.Handlers says, and no other handler is in the copy's registry.
C5_CarriedOverAndAdded ==
    \A g \in G : Returned(g, "Copy") =>
        \A hd \in Handlers : \A b \in BucketsOf(g) :
            /\ InRegistry(ret[g].info.h, hd) /\ ~InOptions(ret[g].info.hmap, hd)
                  => RegAt(loggers[ret[g].val].h, b, hd)
                        = RegAt(ret[g].info.h, b, hd)
            /\ ~InRegistry(ret[g].info.h, hd) /\ InOptions(ret[g].info.hmap, hd)
                  => RegAt(loggers[ret[g].val].h, b, hd)
                        = OptAt(ret[g].info.hmap, b, hd)
            /\ ~InRegistry(ret[g].info.h, hd) /\ ~InOptions(ret[g].info.hmap, hd)
                  => RegAt(loggers[ret[g].val].h, b, hd) = 0

\* a copy that carried one handler over in the all-inclusive bucket, another
\* in the bucket of a custom severity, and added a third from the options
\* under a Level that shares the key of the first
C5_Witness ==
    \E g \in G :
        /\ Returned(g, "Copy")
        /\ ~InOptions(ret[g].info.hmap, "se1")
        /\ RegAt(ret[g].info.h, (0 - MaxInt) - 1, "se1") = 1
        /\ RegAt(ret[g].info.h, 50, "se1") = 1
        /\ RegAt(loggers[ret[g].val].h, (0 - MaxInt) - 1, "se1") = 1
        /\ RegAt(loggers[ret[g].val].h, 50, "se1") = 1
        /\ ~InRegistry(ret[g].info.h, "fh2")
        /\ LvAll \in DOMAIN ret[g].info.hmap
        /\ RegAt(loggers[ret[g].val].h, (0 - MaxInt) - 1, "fh2") = 1

\* options that set no component, formatter, converter or handlers
NoOpOptions(opts, hmap) ==
    /\ opts.Component = ""
    /\ opts.Formatter = NilFormatter
    /\ opts.Converter = NilConverter
    /\ \A lv \in DOMAIN hmap : hmap[lv] = <<>>

\* C6: Copy with no-op options yields a Logger with the registrations
\* (handler, threshold) of the original, and so does copying the copy.
C6_CopyIdempotent ==
    \A g \in G :
        Returned(g, "Copy") /\ NoOpOptions(ret[g].info.opts, ret[g].info.hmap) =>
            /\ SameRegistrations(loggers[ret[g].val].h, ret[g].info.h)
            /\ SameRegistrations(loggers[ret[g].val].h, loggers[ret[g].info.lg].h)
            /\ SameRegistrations(loggers[ret[g].val].h, loggers[1].h)

\* the copy of a no-op copy of a Logger with two registrations, one of them
\* all-inclusive
C6_Witness ==
    \E g \in G :
        /\ Returned(g, "Copy")
        /\ NoOpOptions(ret[g].info.opts, ret[g].info.hmap)
        /\ ret[g].info.lg = 2
        /\ ret[g].val = 3
        /\ RegCount(loggers[1].h) = 2
        /\ (0 - MaxInt) - 1 \in DOMAIN loggers[1].h
        /\ RegCount(loggers[3].h) = 2

\* C7: the copy's Component, Formatter and Converter are those of the
\* options where set there and those of the original Logger otherwise, and
\* the original Logger keeps its own.
C7_FieldsPreferOptions ==
    \A g \in G : Returned(g, "Copy") =>
        LET o == ret[g].info.opts
            orig == ret[g].info.lgOpts
            new == loggers[ret[g].val].opts
        IN  /\ new.Component = IF o.Component # "" THEN o.Component
                               ELSE orig.Component
            /\ new.Formatter = IF o.Formatter # NilFormatter THEN o.Formatter
                               ELSE orig.Formatter
            /\ new.Converter = IF o.Converter # NilConverter THEN o.Converter
                               ELSE orig.Converter
            /\ loggers[ret[g].info.lg].opts = orig

\* a copy that took its component from the options and its formatter and
\* converter from the original
C7_Witness ==
    \E g \in G :
        /\ Returned(g, "Copy")
        /\ ret[g].info.opts.Component = "db"
        /\ ret[g].info.opts.Formatter = NilFormatter
        /\ ret[g].info.opts.Converter = NilConverter
        /\ ret[g].info.lgOpts.Component = "server"
        /\ loggers[ret[g].val].opts.Component = "db"
        /\ loggers[ret[g].val].opts.Formatter = "fmtA"
        /\ loggers[ret[g].val].opts.Converter = "convA"

----------------------------------------------------------------------------
(* Properties of the locks, checked under SpecSinks and SpecConc.          *)

\* goroutine g is between mtxStderr.Lock() and the Unlock of a StderrHandler
InStderrWrite(g) == InStderrHandler(g) /\ Top(g).pc = "write"

\* goroutine g is between fh.mtx.Lock() and the Unlock of FileHandler hd
InFileWrite(g, hd) ==
    InFileHandler(g) /\ Top(g).pc = "write" /\ Top(g).hd = hd

\* goroutine g is inside a handler's Output or InsertBreak that
\* Logger l's Output or InsertBreak called
OnBehalfOf(g, l) ==
    /\ Depth(g) >= 2
    /\ InStderrHandler(g) \/ InFileHandler(g)
    /\ stack[g][Depth(g) - 1].fn \in {"Logger.Output", "Logger.InsertBreak"}
    /\ stack[g][Depth(g) - 1].lg = l

\* C8: whatever StderrHandler instances the goroutines call Output or
\* InsertBreak on, at most one goroutine is inside a write to stderr at any
\* time, and it is the one holding the process-wide stderr mutex.
C8_StderrWritesExclusive ==
    /\ Cardinality({g \in G : InStderrWrite(g)}) <= 1
    /\ mtxStderr = {g \in G : InStderrWrite(g)}

\* one goroutine is writing for instance se1 while another, called on the
\* distinct instance se2, waits for the mutex
C8_Witness ==
    \E g1, g2 \in G :
        /\ g1 # g2
        /\ InStderrWrite(g1) /\ Top(g1).hd = "se1"
        /\ InStderrHandler(g2) /\ Top(g2).hd = "se2" /\ Top(g2).pc = "start"
        /\ ~ENABLED StderrLock(g2)

\* C9: a goroutine inside a handler's Output or InsertBreak on behalf of a
\* Logger does not hold that Logger's lock; the lock is held only inside the
\* registry sections of AddHandler, HandlersForLevel and Copy, so those can
\* run while another goroutine's handler I/O is in progress.
C9_LockNotHeldDuringIO ==
    \A g \in G : \A l \in 1..Len(loggers) :
        /\ OnBehalfOf(g, l) => g \notin loggers[l].mtx
        /\ g \in loggers[l].mtx =>
                /\ ~Idle(g)
                /\ Top(g).fn \in {"AddHandler", "HandlersForLevel", "Copy"}
                /\ Top(g).pc \in {"read", "body"}
                /\ Top(g).lg = l

\* goroutine 1 is inside a handler's write for Logger 1 while another
\* goroutine holds the Logger's lock inside AddHandler and can complete it
C9_Witness ==
    \E g2 \in G :
        /\ g2 # 1
        /\ OnBehalfOf(1, 1) /\ Top(1).pc = "write"
        /\ At(g2, "AddHandler", "body") /\ loggers[1].mtx = {g2}
        /\ ENABLED AddHandlerBody(g2)

\* C10: at most one goroutine is inside a write of one FileHandler instance
\* at any time, and each instance's mutex is held by exactly the goroutine
\* writing through that instance.
C10_FileWritesExclusivePerInstance ==
    \A hd \in FileHandlers :
        /\ Cardinality({g \in G : InFileWrite(g, hd)}) <= 1
        /\ fhMtx[hd] = {g \in G : InFileWrite(g, hd)}

\* two goroutines are inside writes of two distinct FileHandlers opened on
\* the same path at the same time
C10_Witness ==
    \E g1, g2 \in G :
        /\ g1 # g2
        /\ InFileWrite(g1, "fh1")
        /\ InFileWrite(g2, "fh2")
        /\ FilePath("fh1") = FilePath("fh2")

----------------------------------------------------------------------------
(* Properties of the handlers, checked under SpecSinks and Spec.           *)

\* goroutine g takes the step of a handler's Output that chains the
\* handler's component and formats the event
FormatsEvent(g) ==
    /\ InStderrHandler(g) \/ InFileHandler(g)
    /\ Top(g).fn \in {"StderrHandler.Output", "FileHandler.Output"}
    /\ Top(g).pc = "start"
    /\ stack'[g] # <<>>
    /\ stack'[g][Len(stack'[g])].pc = "write"

\* the component of the event that goroutine g's handler formats
Formatted(g) == stack'[g][Len(stack'[g])].evt.Component

\* C11 as stated: a handler's non-empty component is put in front of the
\* event's component, joined by "." when the event has one; an empty
\* handler component leaves the event's component unchanged.
C11_Original ==
    [][\A g \in G : FormatsEvent(g) =>
        LET hc == HandlerOpts(Top(g).hd).Component
            ec == Top(g).evt.Component
        IN  Formatted(g) = IF hc = "" THEN ec
                           ELSE IF ec = "" THEN hc
                           ELSE hc \o "." \o ec]_vars

\* C11: a handler's non-empty component is put behind the event's
\* component, joined by "." when the event has one, and stands alone when
\* the event has none; an empty handler component leaves the event's
\* component unchanged.
C11_HandlerComponentAppended ==
    [][\A g \in G : FormatsEvent(g) =>
        LET hc == HandlerOpts(Top(g).hd).Component
            ec == Top(g).evt.Component
        IN  Formatted(g) = IF hc = "" THEN ec
                           ELSE IF ec = "" THEN hc
                           ELSE ec \o "." \o hc]_vars

\* a StderrHandler and a FileHandler with a component have each formatted an
\* event that arrived with a component
C11_Witness ==
    \E g1, g2 \in G :
        /\ Returned(g1, "StderrHandler.Output")
        /\ trace[g1][1].hd = "se2"
        /\ trace[g1][1].evt.Component = "ext.err"
        /\ Returned(g2, "FileHandler.Output")
        /\ trace[g2][1].hd = "fh2"
        /\ trace[g2][1].evt.Component = "ext.file"

----------------------------------------------------------------------------
(* Properties of the logging methods, checked under SpecLog and Spec.      *)

OutputMethods == {"StderrHandler.Output", "FileHandler.Output"}

\* the names joined by single dots
RECURSIVE JoinDot(_)
JoinDot(names) ==
    IF names = <<>> THEN ""
    ELSE IF Len(names) = 1 THEN names[1]
    ELSE names[1] \o "." \o JoinDot(Tail(names))

\* the non-empty component names of the hops Logger l and handler hd
HopNames(l, hd) ==
    LET Named(c) == c # ""
    IN  SelectSeq(<<loggers[l].opts.Component, HandlerOpts(hd).Component>>,
                  Named)

\* goroutine g is in, or has returned from, a call of one of the methods
StartedBy(g, methods) ==
    \/ ~Idle(g) /\ \E m \in methods : stack[g][1].fn = "Logger." \o m
    \/ Idle(g) /\ \E m \in methods : ret[g].fn = "Logger." \o m

\* the component names the event had when it entered the Logger: none
\* for an event a logging method created, the upstream hop's otherwise
Incoming(g) ==
    IF StartedBy(g, {"Output"}) THEN <<UpstreamComponent>> ELSE <<>>

\* C12: the event a logging method creates has an empty component until
\* Output runs, and the component a sink handler formats is the names the
\* event arrived with followed by the non-empty component names of the
\* Logger and of the handler, each once, joined by single dots; a Logger
\* with component "server" and a handler without one give exactly "server".
C12_ComponentChainedOncePerHop ==
    \A g \in G :
        /\ StartedBy(g, LogMethods \cup FatalMethods) /\ ~Idle(g)
            /\ stack[g][1].pc = "called" => stack[g][1].evt.Component = ""
        /\ \A k \in 1..Len(trace[g]) :
                trace[g][k].fn \in OutputMethods =>
                    trace[g][k].evt.Component =
                        JoinDot(Incoming(g) \o HopNames(1, trace[g][k].hd))

\* Info on a Logger with component "server" has reached a handler without
\* a component, which formatted "server", and a handler with component
\* "file", which formatted "server.file"
C12_Witness ==
    /\ Returned(1, "Logger.Info")
    /\ loggers[1].opts.Component = "server"
    /\ \E j, k \in 1..Len(trace[1]) :
        /\ trace[1][j].hd = "se1" /\ trace[1][j].evt.Component = "server"
        /\ trace[1][k].hd = "fh2" /\ trace[1][k].evt.Component = "server.file"

\* some handler called by goroutine g's operation returned an error
SomeHandlerFailed(g) == \E k \in 1..Len(trace[g]) : ~trace[g][k].err.isNil

InsertBreakMethods == {"StderrHandler.InsertBreak", "FileHandler.InsertBreak"}

\* C17: Logger.InsertBreak(lv) calls InsertBreak, once per registration, on
\* exactly the handlers filed under a threshold at or below lv's severity
\* (the lowest integer for a handler registered under LvAll), goes on after a
\* handler failed, and returns nil iff none failed; InsertBreak(LvAll)
\* calls every registered handler.
C17_InsertBreakFansOut ==
    \A g \in G : Returned(g, "Logger.InsertBreak") =>
        LET regs == loggers[ret[g].info.lg].regs
        IN  /\ \A k \in 1..Len(trace[g]) :
                    trace[g][k].fn \in InsertBreakMethods
            /\ \A hd \in Handlers :
                    LET P(r) == r.hd = hd
                                /\ C1_Threshold(r.lv) <= ret[g].info.lv.Severity
                    IN  Calls(g, hd) = CountRegs(regs, P)
            /\ ret[g].val.isNil <=> ~SomeHandlerFailed(g)
            /\ ret[g].info.lv = LvAll => Len(trace[g]) = BagCardinality(regs)

\* InsertBreak(LvAll) has called a handler registered under LvAll and one
\* registered under another level, the first failed, and an error came back
C17_Witness ==
    \E g \in G :
        /\ Returned(g, "Logger.InsertBreak")
        /\ ret[g].info.lv = LvAll
        /\ \E r1, r2 \in DOMAIN loggers[ret[g].info.lg].regs :
              /\ r1.lv = LvAll /\ r2.lv.Severity # MaxInt /\ r1.hd # r2.hd
              /\ Calls(g, r1.hd) = 1 /\ Calls(g, r2.hd) = 1
        /\ Len(trace[g]) = 2
        /\ ~trace[g][1].err.isNil
        /\ trace[g][2].err.isNil
        /\ ~ret[g].val.isNil

\* goroutine g has returned from a method that hands its caller an error
ReturnedError(g) ==
    /\ Idle(g)
    /\ ret[g].fn \in {"Logger.Output", "Logger.InsertBreak"}
    /\ ~ret[g].val.isNil

LogMethodNames == {"Logger." \o m : m \in LogMethods}

\* C15 as stated: whichever dispatching method of the Logger was called,
\* Output, InsertBreak, Log, Logf or a level method, when a matching handler
\* failed the caller receives the failure.
C15_Original ==
    \A g \in G :
        Idle(g) /\ ret[g].fn # "" /\ SomeHandlerFailed(g) => ReturnedError(g)

\* C15: Output and InsertBreak return a non-nil error exactly when a
\* matching handler failed; Log, Logf and the level methods return no value,
\* and the error their call of Output returned, non-nil exactly when a
\* handler failed, is dropped.
C15_ErrorsReachCallerOfOutputOnly ==
    \A g \in G : Idle(g) /\ ret[g].fn # "" =>
        /\ ret[g].fn \in {"Logger.Output", "Logger.InsertBreak"} =>
                (ReturnedError(g) <=> SomeHandlerFailed(g))
        /\ ret[g].fn \in LogMethodNames =>
                /\ ret[g].val = <<>>
                /\ ret[g].info.output.fn = "Logger.Output"
                /\ ~ret[g].info.output.val.isNil <=> SomeHandlerFailed(g)

\* Log has returned without a value although a handler failed and Output
\* returned the error to it
C15_Witness ==
    /\ Returned(1, "Logger.Log")
    /\ SomeHandlerFailed(1)
    /\ ret[1].val = <<>>
    /\ ~ret[1].info.output.val.isNil

\* goroutine g is in a call of Fatal or Fatalf
FatalCalled(g) == StartedBy(g, FatalMethods) /\ ~Idle(g)

\* C16: the process exits only from Fatal or Fatalf after Output has
\* returned, when every handler registered at a threshold at or below FATAL
\* has had its Output called with the FATAL event, once per registration, and
\* has returned; and every call of Fatal or Fatalf leads to the exit, whether
\* or not a handler returned an error.
C16_FatalDispatchesThenExits ==
    /\ [](exited # <<>> =>
            /\ exited = <<1>>
            /\ \E g \in G :
                /\ FatalCalled(g) /\ Depth(g) = 1 /\ Top(g).pc = "called"
                /\ ret[g].fn = "Logger.Output"
                /\ \A k \in 1..Len(trace[g]) :
                      /\ trace[g][k].fn \in OutputMethods
                      /\ trace[g][k].evt.Level = LvFatal
                /\ \A hd \in Handlers :
                      LET P(r) == r.hd = hd
                                  /\ C1_Threshold(r.lv) <= LvFatal.Severity
                      IN  Calls(g, hd) = CountRegs(loggers[Top(g).lg].regs, P))
    /\ (\E g \in G : FatalCalled(g)) ~> (exited # <<>>)

\* the process has exited from Fatalf after two handlers were called and
\* one of them returned an error
C16_Witness ==
    /\ exited = <<1>>
    /\ stack[1][1].fn = "Logger.Fatalf"
    /\ Len(trace[1]) = 2
    /\ SomeHandlerFailed(1)

\* C14 as stated: on a FileHandler without an open file Output and
\* InsertBreak both return the "not opened" error and neither gets as far
\* as the write.
C14_Original ==
    \A g \in G :
        /\ \A k \in 1..Len(trace[g]) :
                trace[g][k].hd \in FileHandlers /\ ~FileOpened(trace[g][k].hd)
                    => trace[g][k].err = ErrNotOpened
        /\ ~(InFileHandler(g) /\ ~FileOpened(Top(g).hd) /\ Top(g).pc = "write")

----------------------------------------------------------------------------
(* Properties of the options builders, checked under SpecOptions.          *)

\* the step is a call of one of the with* methods on the program's Options
\* value, whose result the program keeps
BuilderStep == stack' = stack /\ (userOpts' # userOpts \/ omaps' # omaps)

\* C13 as stated: a with* method does not change the receiver: the
\* receiver's fields are values, and the contents of the Handlers map the
\* receiver refers to are after the call what they were before it.
C13_Original ==
    [][BuilderStep =>
        HandlersMap(omaps', userOpts) = HandlersMap(omaps, userOpts)]_vars

----------------------------------------------------------------------------
(* Properties of LineFormat, checked under SpecFormat.                     *)

Formats(g) == Returned(g, "LineFormat.Format")
Bytes(g) == ret[g].val
Formatted_evt(g) == ret[g].info.evt

\* number of newlines s ends in
RECURSIVE TrailingNewlines(_)
TrailingNewlines(s) ==
    IF HasSuffix(s, <<NL>>)
    THEN 1 + TrailingNewlines(SubSeq(s, 1, Len(s) - 1))
    ELSE 0

\* C18 as stated: for every message, the bytes Format returns end in exactly
\* one newline and never in two.
C18_Original ==
    \A g \in G : Formats(g) => TrailingNewlines(Bytes(g)) = 1

\* C18: the bytes Format returns end in a newline; a newline is appended
\* exactly when the message does not end in one, and a message that ends in
\* newlines is passed through with all of them, so the output ends in one
\* newline when the message ends in at most one and in as many as the message
\* otherwise.
C18_NewlineAppendedOnlyWhenMissing ==
    \A g \in G : Formats(g) =>
        LET msg == Formatted_evt(g).Message
            out == Bytes(g)
            n == TrailingNewlines(msg)
            body == IF n = 0 THEN msg \o <<NL>> ELSE msg
        IN  /\ HasSuffix(out, body)
            /\ TrailingNewlines(out) = (IF n = 0 THEN 1 ELSE n)

C18_Witness ==
    \E g \in G :
        /\ Formats(g)
        /\ Formatted_evt(g).Message = <<"x", NL>>
        /\ TrailingNewlines(Bytes(g)) = 1

\* the characters of s equal to c
RECURSIVE Occurrences(_, _)
Occurrences(s, c) ==
    IF s = <<>> THEN 0
    ELSE (IF Head(s) = c THEN 1 ELSE 0) + Occurrences(Tail(s), c)

AllSpaces(s) == \A k \in 1..Len(s) : s[k] = SP

\* C19: a formatted line is the timestamp, one space, the level name
\* left-justified in a field of at least 5 characters (padded with spaces,
\* never truncated), one space, the component in parentheses followed by a
\* space only when the component is not empty, then the message; the
\* parenthesised component stands once between the level field and the
\* message.
C19_LineLayout ==
    \A g \in G : Formats(g) =>
        LET evt == Formatted_evt(g)
            lf == ret[g].info.lf
            out == Bytes(g)
            ts == formatTime(evt.Time, lf.UTC, lf.ShowMircoseconds)
            name == evt.Level.Name
            width == IF Len(name) > 5 THEN Len(name) ELSE 5
            msg == IF TrailingNewlines(evt.Message) = 0
                   THEN evt.Message \o <<NL>> ELSE evt.Message
            head == SubSeq(out, 1, Len(out) - Len(msg))
            field == SubSeq(head, Len(ts) + 2, Len(ts) + 1 + width)
            rest == SubSeq(head, Len(ts) + width + 3, Len(head))
        IN  /\ HasSuffix(out, msg)
            /\ Len(head) >= Len(ts) + width + 2
            /\ SubSeq(head, 1, Len(ts)) = ts
            /\ head[Len(ts) + 1] = SP
            /\ Len(field) = width
            /\ SubSeq(field, 1, Len(name)) = name
            /\ AllSpaces(SubSeq(field, Len(name) + 1, width))
            /\ head[Len(ts) + width + 2] = SP
            /\ rest = (IF evt.Component # <<>>
                       THEN <<"(">> \o evt.Component \o <<")", SP>>
                       ELSE <<>>)
            /\ Occurrences(head, "(") = (IF evt.Component # <<>> THEN 1 ELSE 0)

C19_Witness ==
    \E g \in G :
        /\ Formats(g)
        /\ Formatted_evt(g).Level.Name = <<"O", "K">>
        /\ Formatted_evt(g).Component = <<"a", ".", "b">>
        /\ Formatted_evt(g).Message = <<"(", "x">>
        /\ ~ret[g].info.lf.ShowMircoseconds
        /\ Len(Bytes(g)) = 35
        /\ SubSeq(Bytes(g), 21, 35)
               = <<"O", "K", SP, SP, SP, SP, "(", "a", ".", "b", ")", SP,
                   "(", "x", NL>>

----------------------------------------------------------------------------
(* Properties of the Logger of logger.go, checked under SpecLoggerGo.      *)

\* C20: a handler added with AddHandler(LvAll, h) is called by every Output
\* of an event at TRACE, DEBUG, INFO, WARN, ERROR or FATAL.
C20_AllHandlerReceivesNamedLevels ==
    \A g \in G :
        Returned(g, "Logger.Output") /\ ret[g].info.evt.Level \in NamedLevels
            => \A r \in DOMAIN loggers[ret[g].info.lg].regs :
                    r.lv = LvAll => Calls(g, r.hd) >= 1

----------------------------------------------------------------------------
(* Properties of the default logger, checked under SpecStd.                *)

\* the calls of handler hd's Output recorded for g's operation
Writes(g, hd) ==
    LET P(e) == e.hd = hd /\ e.fn = "StderrHandler.Output"
    IN  Count(trace[g], P)

\* C21: every call of a package-level logging function on the unmodified
\* default logger, at any level, makes exactly one write to the stderr handler.
C21_DefaultLoggerWritesEverything ==
    \A g \in G :
        (Idle(g) /\ \E m \in LogMethods : ret[g].fn = "Logger." \o m)
            => Writes(g, "se1") = 1

----------------------------------------------------------------------------
(* Properties of OpenFile and the file's content, checked under SpecFile.  *)

IsPrefix(s, t) == Len(s) <= Len(t) /\ SubSeq(t, 1, Len(s)) = s

\* C22: OpenFile and every write leave the content a file already has in
\* place: in every step each file keeps existing and its old content is a
\* prefix of its new content, so an OpenFile on an existing path does not
\* truncate and written bytes land after everything present at the write.
C22_FileOnlyGrowsByAppending ==
    [][\A p \in DOMAIN fsys.files :
          /\ p \in DOMAIN fsys'.files
          /\ IsPrefix(fsys.files[p], fsys'.files[p])]_vars

\* two handlers opened on the existing file have both written behind its
\* prior content
C22_Witness ==
    /\ {"fh1", "fh2"} \subseteq DOMAIN fsys.fds
    /\ "app.log" \in DOMAIN fsys.files
    /\ LET content == fsys.files["app.log"]
       IN  /\ IsPrefix(PriorContent, content)
           /\ \E i, j \in 1..Len(content) :
                 /\ i < j
                 /\ content[i] = "line fh2"
                 /\ content[j] = "line fh1"

----------------------------------------------------------------------------
(* Properties of the order within a bucket, checked under SpecOrder.       *)

RECURSIVE Concat(_, _)
Concat(h, order) ==
    IF order = <<>> THEN <<>> ELSE h[Head(order)] \o Concat(h, Tail(order))

\* the keys of hmap that are filed under bucket b
KeysOfBucket(hmap, b) == {lv \in DOMAIN hmap : C1_Threshold(lv) = b}

\* list is the buckets of h selected for level lv, each as one block in the
\* bucket's own order
BucketBlocks(list, h, lv) ==
    \E order \in Orders({b \in DOMAIN h : b <= lv.Severity}) :
        list = Concat(h, order)

\* C23: within a bucket handlers are kept and fired in registration order.
\* New files each options list, in list order, as one block of its level's
\* bucket (also when two Level keys share a severity and so a bucket);
\* AddHandler appends to the end of the bucket of the level's severity and
\* leaves every other bucket alone; HandlersForLevel returns each matching
\* bucket as one block in bucket order, and Output and InsertBreak call the
\* handlers in the order of that list.
C23_RegistrationOrderWithinBucket ==
    /\ [](\A l \in 1..Len(loggers) :
            LET hmap == HandlersMap(omaps, loggers[l].opts)
            IN  \A b \in {C1_Threshold(lv) : lv \in DOMAIN hmap} :
                    /\ b \in DOMAIN loggers[l].h
                    /\ \E order \in Orders(KeysOfBucket(hmap, b)) :
                          IsPrefix(Concat(hmap, order), loggers[l].h[b]))
    /\ [](\A g \in G :
            /\ Returned(g, "HandlersForLevel")
                  => BucketBlocks(ret[g].val, ret[g].info.h, ret[g].info.lv)
            /\ (Returned(g, "Logger.Output") \/ Returned(g, "Logger.InsertBreak"))
                  => /\ BucketBlocks(ret[g].info.dispatch, ret[g].info.h,
                                     ret[g].info.lv)
                     /\ [k \in 1..Len(trace[g]) |-> trace[g][k].hd]
                            = ret[g].info.dispatch)
    /\ [][\A g \in G :
            (At(g, "AddHandler", "body") /\ Returned(g, "AddHandler")')
                => LET l == Top(g).lg
                       b == C1_Threshold(Top(g).lv)
                       h == loggers[l].h
                   IN  /\ loggers'[l].h[b]
                            = Append(IF b \in DOMAIN h THEN h[b] ELSE <<>>,
                                     Top(g).hd)
                       /\ \A c \in DOMAIN h \ {b} : loggers'[l].h[c] = h[c]]_vars

\* the lists of two Level keys of severity 0 share a bucket, one list behind
\* the other, and Output called the three handlers in the bucket's order
C23_Witness ==
    \E g \in G :
        /\ Returned(g, "Logger.Output")
        /\ DOMAIN HandlersMap(omaps, loggers[1].opts)
              = {LvInfo, Level("INFO2", 0)}
        /\ ret[g].info.h[0] \in {<<"se1", "fh1", "se2">>, <<"se2", "se1", "fh1">>}
        /\ [k \in 1..Len(trace[g]) |-> trace[g][k].hd] = ret[g].info.h[0]

----------------------------------------------------------------------------
(* Properties of concurrent registration and lookup, checked under         *)
(* SpecConc.                                                               *)

\* g is between the read of a bucket and the store of the extended bucket
MidAddHandler(g) == At(g, "AddHandler", "body")

\* C24: concurrent AddHandler calls lose no registration (the registry
\* always holds every handler once per finished AddHandler call);
\* HandlersForLevel reads the registry only while no AddHandler is between
\* its read and its store, and returns the matching buckets of the registry
\* as it is at that moment; a dispatch calls the handlers of the list it
\* took, whatever is added meanwhile.
C24_RegistryConsistentUnderInterleaving ==
    /\ [](\A l \in 1..Len(loggers) :
            /\ RegCount(loggers[l].h) = BagCardinality(loggers[l].regs)
            /\ \A r \in DOMAIN loggers[l].regs :
                  LET b == C1_Threshold(r.lv)
                      Is(x) == x = r.hd
                      Same(x) == x.hd = r.hd /\ C1_Threshold(x.lv) = b
                  IN  /\ b \in DOMAIN loggers[l].h
                      /\ Count(loggers[l].h[b], Is)
                            = CountRegs(loggers[l].regs, Same))
    /\ [][\A g \in G :
            (At(g, "HandlersForLevel", "body") /\ Returned(g, "HandlersForLevel")')
                => /\ \A g2 \in G : ~MidAddHandler(g2)
                   /\ BucketBlocks(ret'[g].val, loggers[Top(g).lg].h,
                                   Top(g).lv)]_vars
    /\ [](\A g \in G :
            Returned(g, "Logger.Output")
                => /\ [k \in 1..Len(trace[g]) |-> trace[g][k].hd]
                        = ret[g].info.dispatch
                   /\ BucketBlocks(ret[g].info.dispatch, ret[g].info.h,
                                   ret[g].info.lv))

\* a dispatch is walking a list of one handler while an AddHandler that
\* finished meanwhile has put a second matching handler into the registry
C24_Witness ==
    \E g, g2 \in G :
        /\ g2 # g
        /\ ~Idle(g)
        /\ Top(g).fn = "Logger.Output"
        /\ Top(g).pc = "loop"
        /\ Len(Top(g).dispatch) = 1
        /\ RegCount(loggers[1].h) = 2
        /\ Returned(g2, "AddHandler")

----------------------------------------------------------------------------
(* Properties of the registries of a Logger and its copies, checked under  *)
(* SpecFrame.                                                              *)

\* this step is the store of an AddHandler call on Logger l
AddHandlerStores(l) ==
    \E g \in G :
        /\ At(g, "AddHandler", "body")
        /\ Top(g).lg = l
        /\ Returned(g, "AddHandler")'

\* C25: a Logger made by New from options without handlers has an empty
\* registry, and the registry of an existing Logger changes only in the
\* store of an AddHandler call on it: Output, InsertBreak, HandlersForLevel,
\* the logging methods and Copy on it leave it as it is, also when handlers
\* return errors.  Copy fills the registry of the Logger it makes.
C25_RegistryChangedOnlyByAdd ==
    /\ \A l \in 1..Len(loggers) :
          DOMAIN HandlersMap(omaps, loggers[l].opts) = {}
              => loggers[l].h = EmptyMap
    /\ [][/\ Len(loggers') >= Len(loggers)
          /\ \A l \in 1..Len(loggers) :
                loggers'[l].h # loggers[l].h => AddHandlerStores(l)
          /\ \A l \in (Len(loggers) + 1)..Len(loggers') :
                DOMAIN HandlersMap(omaps', loggers'[l].opts) = {}
                    => loggers'[l].h = EmptyMap]_vars

\* a Logger with handlers has been copied and its Output has returned an
\* error
C25_Witness ==
    /\ Len(loggers) >= 2
    /\ Returned(1, "Logger.Output")
    /\ ret[1].info.lg = 1
    /\ ~ret[1].val.isNil
    /\ RegCount(loggers[1].h) >= 1

----------------------------------------------------------------------------
(* Termination of the operations of a Logger, checked under SpecLive.      *)

\* the operations of a Logger that a program calls
Operations ==
    {"Logger.Output", "Logger.InsertBreak", "HandlersForLevel", "AddHandler",
     "Copy"}

\* goroutine g is inside the call of fn that the program made
InCall(g, fn) == ~Idle(g) /\ stack[g][1].fn = fn

----------------------------------------------------------------------------
(* Independence of a Logger and its copy, checked under SpecPair.          *)

\* the handler instances registered in h
HandlersIn(h) == UNION {{h[b][k] : k \in 1..Len(h[b])} : b \in DOMAIN h}

\* goroutine g waits in Lock for the mutex of the Logger it was called on
WaitsForLock(g) ==
    \E fn \in {"AddHandler", "HandlersForLevel", "Copy"} : At(g, fn, "lock")

\* C27: the Logger that Copy returns has its own registry and its own lock
\* and shares the handler instances: it holds no handler other than those of
\* the receiver and of the options; a step of an operation called on one
\* Logger leaves every other Logger as it is, registry and lock, so adding
\* to the copy does not change what the original dispatches to, and the
\* other way round; and a goroutine that waits for the lock of one Logger
\* can take it whenever that lock is free, whoever holds the other's.
C27_CopyIsIndependent ==
    /\ [](\A g \in G :
            Returned(g, "Copy") =>
                HandlersIn(loggers[ret[g].val].h) \subseteq
                    HandlersIn(ret[g].info.h) \cup HandlersIn(ret[g].info.hmap))
    /\ [](\A g \in G :
            WaitsForLock(g) /\ loggers[Top(g).lg].mtx = {}
                => ENABLED (RegistryStep(g) \/ LookupStep(g) \/ CopyStep(g)))
    /\ [][\A g \in G :
            ~Idle(g) /\ stack'[g] # stack[g] =>
                \A l \in 1..Len(loggers) :
                    l # stack[g][1].lg => loggers'[l] = loggers[l]]_vars

\* goroutine 1 holds the lock of the original in AddHandler while goroutine
\* 2 holds the lock of the copy, to which it has added a handler that the
\* original does not have; both hold the handler instance of the options
C27_Witness ==
    /\ Len(loggers) = 2
    /\ At(1, "AddHandler", "body") /\ loggers[1].mtx = {1}
    /\ At(2, "HandlersForLevel", "body") /\ loggers[2].mtx = {2}
    /\ HandlersIn(loggers[1].h) = {"se1"}
    /\ HandlersIn(loggers[2].h) = {"se1", "fh1"}

----------------------------------------------------------------------------
(* Isolation of the handlers of one dispatch, checked under SpecIso.       *)

\* every event that a handler has formatted for goroutine g so far carries
\* the component comp followed by that handler's own component
EachFormats(g, comp) ==
    \A k \in 1..Len(trace[g]) :
        trace[g][k].fn \in OutputMethods =>
            trace[g][k].evt.Component =
                ChainComponent(comp, HandlerOpts(trace[g][k].hd).Component)

\* C28: the handlers of one dispatch get the event by value: the component
\* a handler formats is the component Logger.Output computed followed by
\* that handler's own component and nothing else, whichever handlers run
\* before or after it and whatever their components are; Logger.Output
\* computes its component once from the caller's event and keeps it during
\* the dispatch, and no step of a callee changes the event of a caller.
C28_HandlersIsolated ==
    /\ [](\A g \in G : \A d \in 1..Len(stack[g]) :
            stack[g][d].fn = "Logger.Output" /\ stack[g][d].pc # "start"
                => EachFormats(g, stack[g][d].evt.Component))
    /\ [](\A g \in G :
            Returned(g, "Logger.Output")
                => EachFormats(g, ret[g].info.evt.Component))
    /\ [](\A g \in G : \A d \in 2..Len(stack[g]) :
            stack[g][d].fn = "Logger.Output" /\ stack[g][d].pc # "start"
                => stack[g][d].evt.Component =
                      ChainComponent(stack[g][d - 1].evt.Component,
                                     loggers[stack[g][d].lg].opts.Component))
    /\ [][\A g \in G : \A d \in 1..Len(stack[g]) :
            d < Len(stack[g]) /\ d <= Len(stack'[g])
                => stack'[g][d].evt = stack[g][d].evt]_vars

\* Output of a Logger with component "server" has returned after handler
\* se2 (component "err") formatted "ext.server.err" and then handler fh2
\* (component "file") formatted "ext.server.file"
C28_Witness ==
    /\ Returned(1, "Logger.Output")
    /\ Len(trace[1]) = 2
    /\ trace[1][1].hd = "se2" /\ trace[1][1].evt.Component = "ext.server.err"
    /\ trace[1][2].hd = "fh2" /\ trace[1][2].evt.Component = "ext.server.file"

----------------------------------------------------------------------------
(* Freedom from deadlock, checked under SpecLocks.                         *)

\* how many locks goroutine g holds: registry locks of Loggers, the lock of
\* stderr and locks of FileHandlers
LocksHeld(g) ==
    Cardinality({l \in 1..Len(loggers) : g \in loggers[l].mtx})
        + (IF g \in mtxStderr THEN 1 ELSE 0)
        + Cardinality({hd \in FileHandlers : g \in fhMtx[hd]})

\* goroutine g is inside an operation and its next step can be taken
CanStep(g) == ~Idle(g) /\ ENABLED LiveStep(g)

----------------------------------------------------------------------------
(* Registrations are kept one by one, checked under SpecFrame.             *)

\* the places of the registry h, bucket and position, that hold handler hd
\* in a bucket whose threshold is at most sev
PlacesOf(h, hd, sev) ==
    {bj \in UNION {{<<b, j>> : j \in 1..Len(h[b])} : b \in DOMAIN h} :
        bj[1] <= sev /\ h[bj[1]][bj[2]] = hd}

\* how often hd is registered in h under thresholds of at most sev
Registered(h, hd, sev) == Cardinality(PlacesOf(h, hd, sev))

\* how often hd is registered in h
RegisteredIn(h, hd) == Registered(h, hd, MaxInt)

\* C30: registrations are not de-duplicated.  One Logger.Output calls the
\* Output of a handler as often as the handler is registered in buckets
\* whose threshold is at most the event's severity, and Logger.InsertBreak
\* its InsertBreak likewise; AddHandler adds one registration of its handler
\* at the end of a bucket, also when the handler is registered already, and
\* leaves every registration there is in its bucket at its position; no
\* operation takes a registration out of a Logger; and the Logger Copy
\* returns has every handler the options do not name as often as the
\* receiver has it.
C30_RegistrationsNotDeduplicated ==
    /\ [](\A g \in G :
            Returned(g, "Logger.Output") =>
                \A hd \in Handlers :
                    Calls(g, hd) =
                        Registered(ret[g].info.h, hd,
                                   ret[g].info.evt.Level.Severity))
    /\ [](\A g \in G :
            Returned(g, "Logger.InsertBreak") =>
                \A hd \in Handlers :
                    Calls(g, hd) =
                        Registered(ret[g].info.h, hd, ret[g].info.lv.Severity))
    /\ [](\A g \in G :
            Returned(g, "Copy") =>
                \A hd \in Handlers :
                    ~InOptions(ret[g].info.hmap, hd) =>
                        RegisteredIn(loggers[ret[g].val].h, hd) =
                            RegisteredIn(ret[g].info.h, hd))
    /\ [][\A g \in G :
            At(g, "AddHandler", "body") /\ Idle(g)' =>
                LET h == loggers[Top(g).lg].h
                    hnew == loggers'[Top(g).lg].h
                    sev == BucketOf(Top(g).lv)
                IN  /\ \A b \in DOMAIN h :
                          b \in DOMAIN hnew /\ IsPrefix(h[b], hnew[b])
                    /\ hnew[sev][Len(hnew[sev])] = Top(g).hd
                    /\ \A hd \in Handlers :
                          RegisteredIn(hnew, hd) =
                              RegisteredIn(h, hd)
                                  + (IF hd = Top(g).hd THEN 1 ELSE 0)]_vars
    /\ [][\A l \in 1..Len(loggers) : \A hd \in Handlers :
            /\ l <= Len(loggers')
            /\ RegisteredIn(loggers'[l].h, hd) >= RegisteredIn(loggers[l].h, hd)]_vars

\* a Logger holds handler se1 twice and its Output has called se1 twice,
\* while its copy, made with options that name se1, holds se1 once
C30_Witness ==
    /\ Len(loggers) = 2
    /\ Returned(1, "Logger.Output")
    /\ ret[1].info.lg = 1
    /\ RegisteredIn(loggers[1].h, "se1") = 2
    /\ Calls(1, "se1") = 2
    /\ RegisteredIn(loggers[2].h, "se1") = 1

====
